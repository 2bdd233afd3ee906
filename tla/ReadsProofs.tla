------------------------------ MODULE ReadsProofs ------------------------------
(* What the reading endpoints answer, for any users, teams, tasks and clients   *)
(* and any sizes of rankings and pages.                                         *)
EXTENDS Reads, FunctionTheorems, FiniteSetTheorems, SequenceTheorems, TLAPS

(* The inductive invariant.  The rows of a task's history are in the order of   *)
(* their times, none of which is to come; what is no longer as it was created   *)
(* has a row no earlier than its last update, and what is done has one that     *)
(* says so.                                                                     *)
HistoryIsOrdered(i) ==
    \A n \in DOMAIN history[i] :
        /\ history[i][n].changed_at <= now
        /\ \A m \in DOMAIN history[i] :
              m <= n => history[i][m].changed_at <= history[i][n].changed_at

HasDone(values) == \E n \in DOMAIN values : values[n].new = "done"

UpdatesAreRecorded(i) ==
    Exists(i) =>
        /\ tasks[i].created_at <= tasks[i].updated_at /\ tasks[i].updated_at <= now
        /\ tasks[i].status # "todo" =>
              \E n \in DOMAIN history[i] : tasks[i].updated_at <= history[i][n].changed_at
        /\ tasks[i].status = "done" => HasDone(history[i])

(* What an open transaction is going to commit fits: its rows follow the UPDATE *)
(* in the order of their times, and the UPDATE all rows that are committed.     *)
RowsFollow(t) ==
    \A n \in DOMAIN t.rows :
        /\ t.row.updated_at <= t.rows[n].changed_at /\ t.rows[n].changed_at <= now
        /\ \A m \in DOMAIN t.rows : m <= n => t.rows[m].changed_at <= t.rows[n].changed_at

UpdateFollows(t) ==
    /\ t.row.created_at <= t.row.updated_at /\ t.row.updated_at <= now
    /\ \A n \in DOMAIN history[t.task] : history[t.task][n].changed_at <= t.row.updated_at

WillRecord(t) ==
    /\ t.row.status = "todo" \/ t.rows # << >> \/ t.left # << >>
    /\ t.row.status = "done" => \/ HasDone(history[t.task]) \/ HasDone(t.rows)
                                \/ \E n \in DOMAIN t.left : t.left[n] = "done"

TransactionFits(c) ==
    tx[c] # None => RowsFollow(tx[c]) /\ UpdateFollows(tx[c]) /\ WillRecord(tx[c])

(* The row lock: no task is written by two transactions at once.               *)
OneWriter ==
    \A c, d \in Clients :
        tx[c] # None /\ tx[d] # None /\ tx[c].task = tx[d].task => c = d

Inv ==
    /\ TypeOK
    /\ \A i \in Tasks : HistoryIsOrdered(i) /\ UpdatesAreRecorded(i)
    /\ \A c \in Clients : TransactionFits(c)
    /\ OneWriter

LEMMA SecondsAreNatural == Seconds \subseteq Nat
BY BoundsAreNatural DEF Seconds

LEMMA RowsTyped ==
    ASSUME NEW s \in Seq(Revision)
    PROVE  /\ Len(s) \in Nat /\ DOMAIN s = 1 .. Len(s)
           /\ \A n \in 1 .. Len(s) : s[n] \in Revision /\ s[n].changed_at \in Nat
<1>1. Len(s) \in Nat /\ DOMAIN s = 1 .. Len(s)
  BY LenProperties
<1>2. \A n \in 1 .. Len(s) : s[n] \in Revision
  BY ElementOfSeq
<1> QED
  BY <1>1, <1>2, SecondsAreNatural DEF Revision

LEMMA HistoryTyped ==
    ASSUME TypeOK, NEW i \in Tasks
    PROVE  /\ history[i] \in Seq(Revision) /\ Len(history[i]) \in Nat
           /\ DOMAIN history[i] = 1 .. Len(history[i])
           /\ \A n \in DOMAIN history[i] : history[i][n].changed_at \in Nat
<1>1. history[i] \in Seq(Revision)
  BY DEF TypeOK
<1> QED
  BY <1>1, RowsTyped

Values == Statuses \union {"other"}

LEMMA TransactionTyped ==
    ASSUME TypeOK, NEW c \in Clients, tx[c] # None
    PROVE  /\ tx[c] \in Transaction /\ tx[c].task \in Tasks /\ tx[c].row \in Task
           /\ tx[c].rows \in Seq(Revision) /\ tx[c].left \in Seq(Values)
<1>1. tx[c] \in Transaction
  BY DEF TypeOK
<1> QED
  BY <1>1 DEF Transaction, Values

-------------------------------------------------------------------------------
(* What the steps of a transaction do to it *)

(* The transaction that Open begins                                            *)
Begun(i, row, left) == [task |-> i, row |-> row, rows |-> << >>, left |-> left]

LEMMA OpenTyped ==
    ASSUME TypeOK, NEW c \in Clients, NEW i \in Tasks, NEW row \in Task, NEW left \in Seq(Values),
           Open(c, i, row, left)
    PROVE  /\ TypeOK' /\ tx[c] = None
           /\ tx'[c] = Begun(i, row, left)
           /\ \A d \in Clients : d # c => tx'[d] = tx[d]
           /\ UNCHANGED <<membership, now, tasks, history>>
<1>1. Begun(i, row, left) \in Transaction
  <2>1. << >> \in Seq(Revision)
    BY EmptySeq
  <2> QED
    BY <2>1 DEF Begun, Transaction, Values
<1>2. tx' = [tx EXCEPT ![c] = Begun(i, row, left)] /\ tx[c] = None
      /\ UNCHANGED <<membership, now, tasks, history>>
  BY DEF Open, Begun
<1>3. tx' \in [Clients -> Transaction \union {None}]
  BY <1>1, <1>2 DEF TypeOK
<1> QED
  BY <1>2, <1>3 DEF TypeOK, membership, MembershipTypeOK

LEMMA ChangesTyped ==
    ASSUME NEW i \in Tasks, NEW e \in Edits
    PROVE  Changes(i, e) \in Seq(Values)
<1>1. e.status \in Values /\ "other" \in Values
  BY EditsAreTyped DEF Values
<1>2. << e.status >> \in Seq(Values) /\ << "other" >> \in Seq(Values) /\ << >> \in Seq(Values)
  BY <1>1
<1>3. (IF e.status # tasks[i].status THEN << e.status >> ELSE << >>) \in Seq(Values)
  BY <1>2
<1>4. (IF e.other THEN << "other" >> ELSE << >>) \in Seq(Values)
  BY <1>2
<1> QED
  BY <1>3, <1>4, ConcatProperties DEF Changes

LEMMA ChangeOfStatus ==
    ASSUME NEW i \in Tasks, NEW e \in Edits, e.status # tasks[i].status
    PROVE  \E n \in DOMAIN Changes(i, e) : Changes(i, e)[n] = e.status
<1>1. e.status \in Values /\ "other" \in Values
  BY EditsAreTyped DEF Values
<1> DEFINE rest == IF e.other THEN << "other" >> ELSE << >>
<1>2. rest \in Seq(Values) /\ << e.status >> \in Seq(Values)
  BY <1>1
<1>3. Changes(i, e) = << e.status >> \o rest
  BY DEF Changes
<1> HIDE DEF rest
<1>4. /\ Len(<< e.status >> \o rest) = 1 + Len(rest) /\ Len(rest) \in Nat
      /\ DOMAIN (<< e.status >> \o rest) = 1 .. 1 + Len(rest)
      /\ (<< e.status >> \o rest)[1] = e.status
  BY <1>2, ConcatProperties, LenProperties
<1>5. 1 \in DOMAIN Changes(i, e) /\ Changes(i, e)[1] = e.status
  BY <1>3, <1>4
<1> QED
  BY <1>5

LEMMA InsertTaskTyped ==
    ASSUME TypeOK, NEW c \in Clients, NEW i \in Tasks, NEW cr \in Creations, InsertTask(c, i, cr)
    PROVE  /\ Open(c, i, NewTask(cr), << >>) /\ ~Locked(i)
           /\ NewTask(cr) \in Task /\ << >> \in Seq(Values)
<1>1. NewTask(cr) \in Task
  BY CreationsAreTyped DEF TypeOK, NewTask, Task, Statuses
<1> QED
  BY <1>1, EmptySeq DEF InsertTask

Edited(i, e) == [tasks[i] EXCEPT !.status = e.status, !.updated_at = now]

LEMMA UpdateRowTyped ==
    ASSUME TypeOK, NEW c \in Clients, NEW i \in Tasks, NEW e \in Edits, UpdateRow(c, i, e)
    PROVE  /\ Open(c, i, Edited(i, e), Changes(i, e)) /\ ~Locked(i)
           /\ Exists(i) /\ tasks[i] \in Task /\ Changes(i, e) # << >>
           /\ Edited(i, e) \in Task /\ Changes(i, e) \in Seq(Values)
           /\ Edited(i, e).status = e.status /\ Edited(i, e).updated_at = now
           /\ Edited(i, e).created_at = tasks[i].created_at
<1>1. /\ Open(c, i, Edited(i, e), Changes(i, e)) /\ ~Locked(i)
      /\ Exists(i) /\ Changes(i, e) # << >>
  BY DEF UpdateRow, Edited
<1>2. tasks[i] \in Task /\ now \in Seconds
  BY <1>1 DEF TypeOK, Exists
<1>3. e.status \in Statuses
  BY EditsAreTyped
<1>4. /\ Edited(i, e) \in Task
      /\ Edited(i, e).status = e.status /\ Edited(i, e).updated_at = now
      /\ Edited(i, e).created_at = tasks[i].created_at
  BY <1>2, <1>3 DEF Edited, Task
<1> QED
  BY <1>1, <1>2, <1>4, ChangesTyped

(* The transaction after one more INSERT                                       *)
Stamped(t) ==
    [t EXCEPT !.rows = Append(t.rows, [new |-> Head(t.left), changed_at |-> now]),
              !.left = Tail(t.left)]

LEMMA InsertRevisionTyped ==
    ASSUME TypeOK, NEW c \in Clients, InsertRevision(c)
    PROVE  /\ TypeOK' /\ tx[c] # None /\ tx[c].left # << >>
           /\ tx'[c] = Stamped(tx[c]) /\ tx'[c] \in Transaction
           /\ \A d \in Clients : d # c => tx'[d] = tx[d]
           /\ UNCHANGED <<membership, now, tasks, history>>
<1> DEFINE t == tx[c]
<1>1. /\ tx[c] # None /\ tx[c].left # << >>
      /\ UNCHANGED <<membership, now, tasks, history>>
  BY DEF InsertRevision
<1>2. t \in Transaction /\ t.rows \in Seq(Revision) /\ t.left \in Seq(Values)
  BY <1>1, TransactionTyped
<1>3. tx' = [tx EXCEPT ![c] = Stamped(t)]
  BY <1>1, <1>2 DEF InsertRevision, Stamped, TypeOK, Transaction
<1>4. t.left # << >>
  BY <1>1
<1> HIDE DEF t
<1>5. Head(t.left) \in Values /\ Tail(t.left) \in Seq(Values)
  BY <1>2, <1>4, HeadTailProperties
<1>6. [new |-> Head(t.left), changed_at |-> now] \in Revision
  BY <1>5 DEF Revision, Values, TypeOK
<1>7. Append(t.rows, [new |-> Head(t.left), changed_at |-> now]) \in Seq(Revision)
  BY <1>2, <1>6, AppendProperties
<1>8. Stamped(t) \in Transaction
  BY <1>2, <1>5, <1>7 DEF Stamped, Transaction, Values
<1>9. tx' \in [Clients -> Transaction \union {None}] /\ tx'[c] = Stamped(t)
      /\ \A d \in Clients : d # c => tx'[d] = tx[d]
  BY <1>3, <1>8 DEF TypeOK
<1> QED
  BY <1>1, <1>8, <1>9 DEF TypeOK, membership, MembershipTypeOK, t

LEMMA Joined ==
    ASSUME NEW S, NEW s \in Seq(S), NEW r \in Seq(S)
    PROVE  /\ s \o r \in Seq(S) /\ Len(s) \in Nat /\ Len(r) \in Nat
           /\ Len(s \o r) = Len(s) + Len(r) /\ DOMAIN (s \o r) = 1 .. Len(s) + Len(r)
           /\ \A n \in 1 .. Len(s) : (s \o r)[n] = s[n]
           /\ \A n \in 1 .. Len(r) : (s \o r)[Len(s) + n] = r[n]
           /\ \A n \in 1 .. Len(s) + Len(r) :
                 n <= Len(s) \/ (n - Len(s) \in 1 .. Len(r) /\ (s \o r)[n] = r[n - Len(s)])
<1>1. /\ s \o r \in Seq(S) /\ Len(s) \in Nat /\ Len(r) \in Nat
      /\ Len(s \o r) = Len(s) + Len(r) /\ DOMAIN (s \o r) = 1 .. Len(s) + Len(r)
      /\ \A n \in 1 .. Len(s) + Len(r) :
            (s \o r)[n] = IF n <= Len(s) THEN s[n] ELSE r[n - Len(s)]
  BY ConcatProperties, LenProperties
<1>2. \A n \in 1 .. Len(s) : n \in 1 .. Len(s) + Len(r) /\ n <= Len(s)
  BY <1>1
<1>3. ASSUME NEW n \in 1 .. Len(r)
      PROVE  (s \o r)[Len(s) + n] = r[n]
  <2>1. /\ Len(s) + n \in 1 .. Len(s) + Len(r) /\ ~(Len(s) + n <= Len(s))
        /\ (Len(s) + n) - Len(s) = n
    BY <1>1
  <2> QED
    BY <1>1, <2>1
<1>4. \A n \in 1 .. Len(s) + Len(r) : n <= Len(s) \/ n - Len(s) \in 1 .. Len(r)
  BY <1>1
<1> QED
  BY <1>1, <1>2, <1>3, <1>4

LEMMA CommitTyped ==
    ASSUME TypeOK, NEW c \in Clients, Commit(c)
    PROVE  /\ TypeOK' /\ tx[c] # None /\ tx[c].left = << >> /\ tx[c].task \in Tasks
           /\ tasks'[tx[c].task] = tx[c].row
           /\ history'[tx[c].task] = history[tx[c].task] \o tx[c].rows
           /\ \A i \in Tasks : i # tx[c].task => UNCHANGED <<tasks[i], history[i]>>
           /\ tx'[c] = None /\ \A d \in Clients : d # c => tx'[d] = tx[d]
           /\ UNCHANGED <<membership, now>>
<1>1. /\ tx[c] # None /\ tx[c].left = << >> /\ UNCHANGED <<membership, now>>
      /\ tasks' = [tasks EXCEPT ![tx[c].task] = tx[c].row]
      /\ history' = [history EXCEPT ![tx[c].task] = history[tx[c].task] \o tx[c].rows]
      /\ tx' = [tx EXCEPT ![c] = None]
  BY DEF Commit
<1>2. tx[c].task \in Tasks /\ tx[c].row \in Task /\ tx[c].rows \in Seq(Revision)
  BY <1>1, TransactionTyped
<1>3. history[tx[c].task] \o tx[c].rows \in Seq(Revision)
  BY <1>2, HistoryTyped, Joined
<1> DEFINE i == tx[c].task
           row == tx[c].row
           rows == history[i] \o tx[c].rows
<1>4. /\ tasks' = [tasks EXCEPT ![i] = row] /\ history' = [history EXCEPT ![i] = rows]
      /\ i \in Tasks /\ row \in Task /\ rows \in Seq(Revision)
  BY <1>1, <1>2, <1>3
<1> HIDE DEF i, row, rows
<1>5. /\ tasks' \in [Tasks -> Task \union {None}] /\ tasks'[i] = row
      /\ \A x \in Tasks : x # i => tasks'[x] = tasks[x]
  BY <1>4 DEF TypeOK
<1>6. /\ history' \in [Tasks -> Seq(Revision)] /\ history'[i] = rows
      /\ \A x \in Tasks : x # i => history'[x] = history[x]
  BY <1>4 DEF TypeOK
<1>7. /\ tx' \in [Clients -> Transaction \union {None}] /\ tx'[c] = None
      /\ \A d \in Clients : d # c => tx'[d] = tx[d]
  BY <1>1 DEF TypeOK
<1>8. MembershipTypeOK' /\ now' \in Seconds
  BY <1>1 DEF TypeOK, membership, MembershipTypeOK
<1>9. TypeOK'
  BY <1>5, <1>6, <1>7, <1>8 DEF TypeOK
<1> QED
  BY <1>1, <1>2, <1>5, <1>6, <1>7, <1>9 DEF i, row, rows

LEMMA RollbackTyped ==
    ASSUME TypeOK, NEW c \in Clients, Rollback(c)
    PROVE  /\ TypeOK' /\ tx'[c] = None /\ \A d \in Clients : d # c => tx'[d] = tx[d]
           /\ UNCHANGED <<membership, now, tasks, history>>
<1>1. tx' = [tx EXCEPT ![c] = None] /\ UNCHANGED <<membership, now, tasks, history>>
  BY DEF Rollback
<1>2. tx' \in [Clients -> Transaction \union {None}]
  BY <1>1 DEF TypeOK
<1> QED
  BY <1>1, <1>2 DEF TypeOK, membership, MembershipTypeOK

LEMMA OthersTyped ==
    ASSUME TypeOK,
           \/ \E t \in Teams, u \in Users : MembershipGrows(t, u)
           \/ Tick
           \/ UNCHANGED vars
    PROVE  TypeOK' /\ now <= now' /\ UNCHANGED <<tasks, history, tx>>
<1>1. now \in Nat
  BY SecondsAreNatural DEF TypeOK
<1>2. ASSUME NEW t \in Teams, NEW u \in Users, MembershipGrows(t, u)
      PROVE  TypeOK' /\ now <= now' /\ UNCHANGED <<tasks, history, tx>>
  <2>1. MembershipTypeOK'
    <3>1. creator' \in [Teams -> Users \union {None}]
      BY <1>2 DEF TypeOK, MembershipGrows, CreateWithOwner, AddMember, MembershipTypeOK
    <3>2. PICK r \in Roles : role' = [role EXCEPT ![t][u] = r]
      BY <1>2 DEF MembershipGrows, CreateWithOwner, AddMember, Roles
    <3>3. role' \in [Teams -> [Users -> Roles \union {NoRole}]]
      BY <3>2 DEF TypeOK, MembershipTypeOK
    <3> QED
      BY <3>1, <3>3 DEF MembershipTypeOK
  <2> QED
    BY <1>1, <1>2, <2>1 DEF TypeOK, MembershipGrows
<1>3. CASE Tick
  <2>1. now' \in Seconds /\ now <= now'
    BY <1>1, <1>3, BoundsAreNatural DEF TypeOK, Tick, Seconds
  <2> QED
    BY <1>3, <2>1 DEF TypeOK, Tick, membership, MembershipTypeOK
<1>4. CASE UNCHANGED vars
  BY <1>1, <1>4 DEF TypeOK, vars, membership, MembershipTypeOK
<1> QED
  BY <1>2, <1>3, <1>4

-------------------------------------------------------------------------------
(* The invariant is kept. *)

LEMMA TaskKept ==
    ASSUME Inv, TypeOK', now <= now', NEW i \in Tasks, UNCHANGED <<tasks[i], history[i]>>
    PROVE  HistoryIsOrdered(i)' /\ UpdatesAreRecorded(i)'
<1>1. TypeOK /\ HistoryIsOrdered(i) /\ UpdatesAreRecorded(i)
  BY DEF Inv
<1>2. now \in Nat /\ now' \in Nat /\ \A n \in DOMAIN history[i] : history[i][n].changed_at \in Nat
  BY <1>1, SecondsAreNatural, HistoryTyped DEF TypeOK
<1>3. Exists(i) => tasks[i].updated_at \in Nat
  BY <1>1, SecondsAreNatural DEF TypeOK, Exists, Task
<1>4. HistoryIsOrdered(i)'
  BY <1>1, <1>2 DEF HistoryIsOrdered
<1>5. UpdatesAreRecorded(i)'
  BY <1>1, <1>2, <1>3 DEF UpdatesAreRecorded, Exists, HasDone
<1> QED
  BY <1>4, <1>5

LEMMA TransactionKept ==
    ASSUME Inv, TypeOK', now <= now', NEW c \in Clients, tx'[c] = tx[c],
           tx[c] # None => history'[tx[c].task] = history[tx[c].task]
    PROVE  TransactionFits(c)'
<1> SUFFICES ASSUME tx[c] # None
             PROVE  (RowsFollow(tx[c]) /\ UpdateFollows(tx[c]) /\ WillRecord(tx[c]))'
  BY DEF TransactionFits
<1> DEFINE t == tx[c]
<1>1. TypeOK /\ RowsFollow(t) /\ UpdateFollows(t) /\ WillRecord(t)
  BY DEF Inv, TransactionFits
<1>2. t.row.updated_at \in Nat /\ t.rows \in Seq(Revision)
  BY <1>1, TransactionTyped, SecondsAreNatural DEF Task
<1>3. now \in Nat /\ now' \in Nat /\ \A n \in DOMAIN t.rows : t.rows[n].changed_at \in Nat
  <2> HIDE DEF t
  <2> QED
    BY <1>1, <1>2, SecondsAreNatural, RowsTyped DEF TypeOK
<1>4. t' = t /\ history'[t.task] = history[t.task]
  OBVIOUS
<1> HIDE DEF t
<1>5. RowsFollow(t)'
  BY <1>1, <1>2, <1>3, <1>4 DEF RowsFollow
<1>6. UpdateFollows(t)'
  BY <1>1, <1>2, <1>3, <1>4 DEF UpdateFollows
<1>7. WillRecord(t)'
  BY <1>1, <1>4 DEF WillRecord, HasDone
<1> QED
  BY <1>5, <1>6, <1>7 DEF t

(* The new transaction fits, and the row lock keeps it from another's task.    *)
LEMMA OpenKeepsInv ==
    ASSUME Inv, NEW c \in Clients, NEW i \in Tasks, NEW row \in Task, NEW left \in Seq(Values),
           Open(c, i, row, left), ~Locked(i),
           row.created_at <= row.updated_at, row.updated_at = now,
           row.status = "todo" \/ left # << >>,
           row.status = "done" => HasDone(history[i]) \/ \E n \in DOMAIN left : left[n] = "done"
    PROVE  Inv'
<1> DEFINE t == Begun(i, row, left)
<1>1. /\ TypeOK /\ TypeOK' /\ tx[c] = None /\ tx'[c] = t
      /\ \A d \in Clients : d # c => tx'[d] = tx[d]
      /\ UNCHANGED <<membership, now, tasks, history>>
  BY OpenTyped DEF Inv
<1>2. now \in Nat /\ now <= now'
  BY <1>1, SecondsAreNatural DEF TypeOK
<1>3. t.task = i /\ t.row = row /\ t.rows = << >> /\ t.left = left
  BY DEF Begun
<1> HIDE DEF t
<1>4. RowsFollow(t)' /\ UpdateFollows(t)' /\ WillRecord(t)'
  <2>1. RowsFollow(t)'
    BY <1>1, <1>3 DEF RowsFollow
  <2>2. HistoryIsOrdered(i)
    BY DEF Inv
  <2>3. UpdateFollows(t)'
    BY <1>1, <1>2, <1>3, <2>2 DEF UpdateFollows, HistoryIsOrdered
  <2>4. WillRecord(t)'
    BY <1>1, <1>3 DEF WillRecord, HasDone
  <2> QED
    BY <2>1, <2>3, <2>4
<1>5. ASSUME NEW d \in Clients
      PROVE  TransactionFits(d)'
  <2>1. CASE d = c
    BY <1>1, <1>4, <2>1 DEF TransactionFits
  <2>2. CASE d # c
    BY <1>1, <1>2, <2>2, TransactionKept
  <2> QED
    BY <2>1, <2>2
<1>6. OneWriter'
  BY <1>1, <1>3 DEF OneWriter, Locked, Inv
<1>7. \A x \in Tasks : HistoryIsOrdered(x)' /\ UpdatesAreRecorded(x)'
  BY <1>1, <1>2, TaskKept
<1> QED
  BY <1>1, <1>5, <1>6, <1>7 DEF Inv

LEMMA InsertRevisionKeepsInv ==
    ASSUME Inv, NEW c \in Clients, InsertRevision(c)
    PROVE  Inv'
<1> DEFINE t == tx[c]
           u == Stamped(t)
           revision == [new |-> Head(t.left), changed_at |-> now]
<1>1. /\ TypeOK /\ TypeOK' /\ tx[c] # None /\ t.left # << >> /\ tx'[c] = u
      /\ \A d \in Clients : d # c => tx'[d] = tx[d]
      /\ UNCHANGED <<membership, now, tasks, history>>
  BY InsertRevisionTyped DEF Inv
<1>2. now \in Nat /\ now <= now'
  BY <1>1, SecondsAreNatural DEF TypeOK
<1>3. RowsFollow(t) /\ UpdateFollows(t) /\ WillRecord(t)
  BY <1>1 DEF Inv, TransactionFits
<1>4. /\ t \in Transaction /\ t.rows \in Seq(Revision) /\ t.left \in Seq(Values)
      /\ t.row.updated_at \in Nat
  BY <1>1, TransactionTyped, SecondsAreNatural DEF Task
<1>5. /\ u.task = t.task /\ u.row = t.row
      /\ u.rows = Append(t.rows, revision) /\ u.left = Tail(t.left)
  BY <1>4 DEF Stamped, Transaction
<1>6. revision.changed_at = now /\ revision.new = Head(t.left)
  OBVIOUS
<1>7. revision \in Revision
  BY <1>1, <1>4, HeadTailProperties DEF Revision, Values, TypeOK
<1> DEFINE old == Len(t.rows)
<1> HIDE DEF t, u, revision
<1>8. /\ old \in Nat /\ DOMAIN t.rows = 1 .. old /\ DOMAIN u.rows = 1 .. old + 1
      /\ \A n \in 1 .. old : u.rows[n] = t.rows[n] /\ t.rows[n].changed_at \in Nat
      /\ u.rows[old + 1] = revision
  <2>1. /\ old \in Nat /\ DOMAIN t.rows = 1 .. old
        /\ \A n \in 1 .. old : t.rows[n].changed_at \in Nat
    BY <1>4, RowsTyped
  <2>2. /\ Append(t.rows, revision) \in Seq(Revision)
        /\ Len(Append(t.rows, revision)) = old + 1
        /\ \A n \in 1 .. old : Append(t.rows, revision)[n] = t.rows[n]
        /\ Append(t.rows, revision)[old + 1] = revision
    BY <1>4, <1>7, AppendProperties
  <2>3. DOMAIN Append(t.rows, revision) = 1 .. old + 1
    BY <2>2, LenProperties
  <2> QED
    BY <1>5, <2>1, <2>2, <2>3
<1> HIDE DEF old
<1>9. RowsFollow(tx[c])'
  <2>1. \A n \in 1 .. old :
           /\ t.row.updated_at <= t.rows[n].changed_at /\ t.rows[n].changed_at <= now
           /\ \A m \in 1 .. old : m <= n => t.rows[m].changed_at <= t.rows[n].changed_at
    BY <1>3, <1>8 DEF RowsFollow
  <2>2. ASSUME NEW n \in 1 .. old + 1
        PROVE  /\ t.row.updated_at <= u.rows[n].changed_at /\ u.rows[n].changed_at <= now
               /\ \A m \in 1 .. old + 1 : m <= n => u.rows[m].changed_at <= u.rows[n].changed_at
    <3>1. CASE n <= old
      <4>1. n \in 1 .. old /\ u.rows[n] = t.rows[n]
        BY <1>8, <3>1
      <4>2. ASSUME NEW m \in 1 .. old + 1, m <= n
            PROVE  m \in 1 .. old /\ u.rows[m] = t.rows[m]
        BY <1>8, <4>1, <4>2
      <4> QED
        BY <2>1, <4>1, <4>2
    <3>2. CASE ~(n <= old)
      <4>1. n = old + 1 /\ u.rows[n].changed_at = now
        BY <1>6, <1>8, <3>2
      <4>2. t.row.updated_at <= now
        BY <1>3 DEF UpdateFollows
      <4>3. ASSUME NEW m \in 1 .. old + 1
            PROVE  u.rows[m].changed_at <= now
        <5>1. m \in 1 .. old \/ m = old + 1
          BY <1>8
        <5> QED
          BY <1>2, <1>6, <1>8, <2>1, <5>1
      <4> QED
        BY <1>2, <4>1, <4>2, <4>3
    <3> QED
      BY <3>1, <3>2
  <2> QED
    BY <1>1, <1>5, <1>8, <2>2 DEF RowsFollow
<1>10. UpdateFollows(tx[c])'
  BY <1>1, <1>3, <1>5 DEF UpdateFollows
<1>11. WillRecord(tx[c])'
  <2>1. u.rows # << >>
    BY <1>8
  <2>2. HasDone(t.rows) => HasDone(u.rows)
    BY <1>8 DEF HasDone
  <2>3. ASSUME NEW n \in DOMAIN t.left, t.left[n] = "done"
        PROVE  HasDone(u.rows) \/ \E m \in DOMAIN u.left : u.left[m] = "done"
    <3> DEFINE s == t.left
    <3>1. s \in Seq(Values) /\ s # << >> /\ n \in DOMAIN s /\ s[n] = "done"
      BY <1>1, <1>4, <2>3
    <3>2. u.left = Tail(s) /\ revision.new = Head(s)
      BY <1>5, <1>6
    <3> HIDE DEF s
    <3>3. /\ Head(s) = s[1] /\ Tail(s) \in Seq(Values) /\ Len(Tail(s)) = Len(s) - 1
          /\ \A m \in 1 .. Len(Tail(s)) : Tail(s)[m] = s[m + 1]
      BY <3>1, HeadTailProperties
    <3>4. Len(s) \in Nat /\ DOMAIN s = 1 .. Len(s) /\ DOMAIN Tail(s) = 1 .. Len(Tail(s))
      BY <3>1, <3>3, LenProperties
    <3>5. CASE n = 1
      <4>1. old + 1 \in DOMAIN u.rows /\ u.rows[old + 1].new = "done"
        BY <1>8, <3>1, <3>2, <3>3, <3>5
      <4> QED
        BY <4>1 DEF HasDone
    <3>6. CASE n # 1
      <4>1. n - 1 \in 1 .. Len(Tail(s)) /\ (n - 1) + 1 = n
        BY <3>1, <3>3, <3>4, <3>6
      <4> QED
        BY <3>1, <3>2, <3>3, <3>4, <4>1
    <3> QED
      BY <3>5, <3>6
  <2>4. t.row.status = "done" => \/ HasDone(history[t.task]) \/ HasDone(u.rows)
                                 \/ \E n \in DOMAIN u.left : u.left[n] = "done"
    BY <1>3, <2>2, <2>3 DEF WillRecord
  <2> QED
    BY <1>1, <1>5, <2>1, <2>4 DEF WillRecord, HasDone
<1>12. ASSUME NEW d \in Clients
       PROVE  TransactionFits(d)'
  <2>1. CASE d = c
    BY <1>1, <1>9, <1>10, <1>11, <2>1 DEF TransactionFits
  <2>2. CASE d # c
    BY <1>1, <1>2, <2>2, TransactionKept
  <2> QED
    BY <2>1, <2>2
<1>13. OneWriter'
  <2>1. \A d \in Clients : tx'[d] # None => tx[d] # None /\ tx'[d].task = tx[d].task
    BY <1>1, <1>5 DEF t
  <2>2. OneWriter
    BY DEF Inv
  <2> QED
    BY <2>1, <2>2 DEF OneWriter
<1>14. \A x \in Tasks : HistoryIsOrdered(x)' /\ UpdatesAreRecorded(x)'
  BY <1>1, <1>2, TaskKept
<1> QED
  BY <1>1, <1>12, <1>13, <1>14 DEF Inv

LEMMA CommitKeepsInv ==
    ASSUME Inv, NEW c \in Clients, Commit(c)
    PROVE  Inv'
<1> DEFINE t == tx[c]
           i == t.task
           s == history[i]
           r == t.rows
           g == history'[i]
           L == Len(s)
           M == Len(s) + Len(r)
<1>1. /\ TypeOK /\ TypeOK' /\ t # None /\ t.left = << >> /\ i \in Tasks
      /\ tasks'[i] = t.row /\ g = s \o r
      /\ \A x \in Tasks : x # i => UNCHANGED <<tasks[x], history[x]>>
      /\ tx'[c] = None /\ \A d \in Clients : d # c => tx'[d] = tx[d]
      /\ UNCHANGED <<membership, now>>
  BY CommitTyped DEF Inv
<1>2. now \in Nat /\ now <= now'
  BY <1>1, SecondsAreNatural DEF TypeOK
<1>3. RowsFollow(t) /\ UpdateFollows(t) /\ WillRecord(t)
  BY <1>1 DEF Inv, TransactionFits
<1>4. s \in Seq(Revision) /\ r \in Seq(Revision) /\ t.row.updated_at \in Nat
  BY <1>1, HistoryTyped, TransactionTyped, SecondsAreNatural DEF Task
<1>5. HistoryIsOrdered(i)
  BY <1>1 DEF Inv
<1> HIDE DEF t, i, s, r, g, L, M
<1>6. /\ L \in Nat /\ M \in Nat /\ L <= M /\ DOMAIN s = 1 .. L /\ DOMAIN g = 1 .. M
      /\ \A n \in 1 .. L : n \in 1 .. M /\ g[n] = s[n]
      /\ \A n \in 1 .. M : n <= L \/ (n - L \in DOMAIN r /\ g[n] = r[n - L])
      /\ \A n \in DOMAIN r : L + n \in 1 .. M /\ g[L + n] = r[n]
  BY <1>1, <1>4, Joined, RowsTyped DEF L, M
<1>7. /\ \A n \in DOMAIN s : s[n].changed_at \in Nat
      /\ \A n \in DOMAIN r : r[n].changed_at \in Nat
  BY <1>4, RowsTyped
<1> DEFINE T == t.row.updated_at
<1>8. /\ T \in Nat /\ T <= now
      /\ \A n \in DOMAIN s : s[n].changed_at <= T
      /\ \A n \in DOMAIN r : T <= r[n].changed_at /\ r[n].changed_at <= now
  BY <1>3, <1>4 DEF RowsFollow, UpdateFollows, s, i, r
<1>9. /\ \A m, n \in DOMAIN s : m <= n => s[m].changed_at <= s[n].changed_at
      /\ \A m, n \in DOMAIN r : m <= n => r[m].changed_at <= r[n].changed_at
  BY <1>3, <1>5 DEF HistoryIsOrdered, RowsFollow, s, r
<1> HIDE DEF T
<1>10. ASSUME NEW n \in 1 .. M
       PROVE  /\ g[n].changed_at \in Nat /\ g[n].changed_at <= now
              /\ \A m \in 1 .. M : m <= n => g[m].changed_at <= g[n].changed_at
  <2>1. CASE n <= L
    <3>1. n \in DOMAIN s /\ g[n] = s[n] /\ s[n].changed_at <= now
      <4>1. n \in DOMAIN s /\ g[n] = s[n]
        BY <1>6, <2>1
      <4>2. s[n].changed_at <= T /\ s[n].changed_at \in Nat
        BY <1>7, <1>8, <4>1
      <4> QED
        BY <1>2, <1>8, <4>1, <4>2
    <3>2. ASSUME NEW m \in 1 .. M, m <= n
          PROVE  g[m].changed_at <= g[n].changed_at
      <4>1. m \in DOMAIN s /\ g[m] = s[m]
        BY <1>6, <2>1, <3>2
      <4> QED
        BY <1>9, <3>1, <3>2, <4>1
    <3> QED
      BY <1>7, <3>1, <3>2
  <2>2. CASE ~(n <= L)
    <3>1. n - L \in DOMAIN r /\ g[n] = r[n - L]
      BY <1>6, <2>2
    <3>2. ASSUME NEW m \in 1 .. M, m <= n
          PROVE  g[m].changed_at <= g[n].changed_at
      <4>1. CASE m <= L
        <5>1. m \in DOMAIN s /\ g[m] = s[m]
          BY <1>6, <4>1
        <5>2. s[m].changed_at <= T /\ T <= r[n - L].changed_at
          BY <1>8, <3>1, <5>1
        <5> QED
          BY <1>7, <1>8, <3>1, <5>1, <5>2
      <4>2. CASE ~(m <= L)
        <5>1. m - L \in DOMAIN r /\ g[m] = r[m - L]
          BY <1>6, <4>2
        <5>2. m - L <= n - L
          BY <1>6, <3>2
        <5> QED
          BY <1>9, <3>1, <5>1, <5>2
      <4> QED
        BY <4>1, <4>2
    <3>3. g[n].changed_at \in Nat /\ g[n].changed_at <= now
      BY <1>7, <1>8, <3>1
    <3> QED
      BY <3>2, <3>3
  <2> QED
    BY <2>1, <2>2
<1>11. history'[i] = g /\ tasks'[i] = t.row /\ now' = now
  BY <1>1 DEF g
<1>12. ASSUME NEW x \in Tasks, x = i
       PROVE  HistoryIsOrdered(x)'
  BY <1>6, <1>10, <1>11, <1>12 DEF HistoryIsOrdered
<1>13. ASSUME NEW x \in Tasks, x = i
       PROVE  UpdatesAreRecorded(x)'
  <2>1. t.row.created_at <= T /\ T <= now
    BY <1>3 DEF UpdateFollows, T
  <2>2. ASSUME t.row.status # "todo"
        PROVE  \E n \in 1 .. M : T <= g[n].changed_at
    <3>1. r # << >>
      BY <1>1, <1>3, <2>2 DEF WillRecord, r
    <3>2. 1 \in DOMAIN r
      BY <1>4, <3>1, EmptySeq, LenProperties
    <3> QED
      BY <1>6, <1>8, <3>2
  <2>3. ASSUME t.row.status = "done"
        PROVE  HasDone(g)
    <3>1. HasDone(s) \/ HasDone(r)
      BY <1>1, <1>3, <2>3 DEF WillRecord, s, i, r
    <3>2. HasDone(s) => HasDone(g)
      BY <1>6 DEF HasDone
    <3>3. HasDone(r) => HasDone(g)
      BY <1>6 DEF HasDone
    <3> QED
      BY <3>1, <3>2, <3>3
  <2>4. /\ tasks'[x] = t.row /\ history'[x] = g /\ now' = now
        /\ t.row.updated_at = T /\ DOMAIN g = 1 .. M
    BY <1>6, <1>11, <1>13 DEF T
  <2> QED
    BY <2>1, <2>2, <2>3, <2>4 DEF UpdatesAreRecorded, HasDone
<1>14. ASSUME NEW x \in Tasks
       PROVE  HistoryIsOrdered(x)' /\ UpdatesAreRecorded(x)'
  <2>1. CASE x = i
    BY <1>12, <1>13, <2>1
  <2>2. CASE x # i
    BY <1>1, <1>2, <2>2, TaskKept
  <2> QED
    BY <2>1, <2>2
<1>15. ASSUME NEW d \in Clients
       PROVE  TransactionFits(d)'
  <2>1. CASE d = c
    BY <1>1, <2>1 DEF TransactionFits
  <2>2. CASE d # c
    <3>1. tx'[d] = tx[d]
      BY <1>1, <2>2
    <3>2. ASSUME tx[d] # None
          PROVE  history'[tx[d].task] = history[tx[d].task]
      <4>1. tx[d].task # i /\ tx[d].task \in Tasks
        BY <1>1, <2>2, <3>2, TransactionTyped DEF Inv, OneWriter, t, i
      <4> QED
        BY <1>1, <4>1
    <3> QED
      BY <1>1, <1>2, <3>1, <3>2, TransactionKept
  <2> QED
    BY <2>1, <2>2
<1>16. OneWriter'
  <2>1. \A d \in Clients : tx'[d] # None => tx'[d] = tx[d]
    BY <1>1
  <2> QED
    BY <2>1 DEF Inv, OneWriter
<1> QED
  BY <1>1, <1>14, <1>15, <1>16 DEF Inv

LEMMA RollbackKeepsInv ==
    ASSUME Inv, NEW c \in Clients, Rollback(c)
    PROVE  Inv'
<1>1. /\ TypeOK /\ TypeOK' /\ tx'[c] = None /\ \A d \in Clients : d # c => tx'[d] = tx[d]
      /\ UNCHANGED <<membership, now, tasks, history>>
  BY RollbackTyped DEF Inv
<1>2. now <= now'
  BY <1>1, SecondsAreNatural DEF TypeOK
<1>3. ASSUME NEW d \in Clients
      PROVE  TransactionFits(d)'
  <2>1. CASE d = c
    BY <1>1, <2>1 DEF TransactionFits
  <2>2. CASE d # c
    BY <1>1, <1>2, <2>2, TransactionKept
  <2> QED
    BY <2>1, <2>2
<1>4. OneWriter'
  <2>1. \A d \in Clients : tx'[d] # None => tx'[d] = tx[d]
    BY <1>1
  <2> QED
    BY <2>1 DEF Inv, OneWriter
<1>5. \A x \in Tasks : HistoryIsOrdered(x)' /\ UpdatesAreRecorded(x)'
  BY <1>1, <1>2, TaskKept
<1> QED
  BY <1>1, <1>3, <1>4, <1>5 DEF Inv

LEMMA StepInv ==
    ASSUME Inv, [Next]_vars
    PROVE  Inv'
<1>1. TypeOK
  BY DEF Inv
<1>2. ASSUME NEW c \in Clients, NEW i \in Tasks, NEW cr \in Creations, InsertTask(c, i, cr)
      PROVE  Inv'
  <2>1. /\ Open(c, i, NewTask(cr), << >>) /\ ~Locked(i)
        /\ NewTask(cr) \in Task /\ << >> \in Seq(Values)
    BY <1>1, <1>2, InsertTaskTyped
  <2>2. /\ NewTask(cr).created_at = now /\ NewTask(cr).updated_at = now
        /\ NewTask(cr).status = "todo" /\ now <= now
    BY <1>1, SecondsAreNatural DEF NewTask, TypeOK
  <2> QED
    BY <2>1, <2>2, OpenKeepsInv
<1>3. ASSUME NEW c \in Clients, NEW i \in Tasks, NEW e \in Edits, UpdateRow(c, i, e)
      PROVE  Inv'
  <2> DEFINE row == Edited(i, e)
             left == Changes(i, e)
  <2>1. /\ Open(c, i, row, left) /\ ~Locked(i) /\ Exists(i) /\ tasks[i] \in Task
        /\ row \in Task /\ left \in Seq(Values) /\ left # << >>
        /\ row.status = e.status /\ row.updated_at = now
        /\ row.created_at = tasks[i].created_at
    BY <1>1, <1>3, UpdateRowTyped
  <2>2. UpdatesAreRecorded(i)
    BY DEF Inv
  <2>3. row.created_at <= row.updated_at
    <3>1. tasks[i].created_at \in Nat /\ tasks[i].updated_at \in Nat /\ now \in Nat
      BY <1>1, <2>1, SecondsAreNatural DEF Task, TypeOK
    <3> QED
      BY <2>1, <2>2, <3>1 DEF UpdatesAreRecorded
  <2>4. ASSUME row.status = "done"
        PROVE  HasDone(history[i]) \/ \E n \in DOMAIN left : left[n] = "done"
    <3>1. CASE e.status # tasks[i].status
      BY <2>1, <2>4, <3>1, ChangeOfStatus
    <3>2. CASE e.status = tasks[i].status
      BY <2>1, <2>2, <2>4, <3>2 DEF UpdatesAreRecorded
    <3> QED
      BY <3>1, <3>2
  <2> HIDE DEF row, left
  <2> QED
    BY <2>1, <2>3, <2>4, OpenKeepsInv
<1>4. ASSUME NEW c \in Clients, InsertRevision(c) \/ Commit(c) \/ Rollback(c)
      PROVE  Inv'
  BY <1>4, InsertRevisionKeepsInv, CommitKeepsInv, RollbackKeepsInv
<1>5. CASE \/ \E t \in Teams, u \in Users : MembershipGrows(t, u)
           \/ Tick
           \/ UNCHANGED vars
  <2>1. TypeOK' /\ now <= now' /\ UNCHANGED <<tasks, history, tx>>
    BY <1>1, <1>5, OthersTyped
  <2>2. \A x \in Tasks : HistoryIsOrdered(x)' /\ UpdatesAreRecorded(x)'
    BY <2>1, TaskKept
  <2>3. \A c \in Clients : TransactionFits(c)'
    BY <2>1, TransactionKept
  <2>4. OneWriter'
    BY <2>1 DEF Inv, OneWriter
  <2> QED
    BY <2>1, <2>2, <2>3, <2>4 DEF Inv
<1> QED
  BY <1>2, <1>3, <1>4, <1>5 DEF Next

LEMMA InvHolds == Spec => []Inv
<1>1. Init => Inv
  <2> SUFFICES ASSUME Init
               PROVE  Inv
    OBVIOUS
  <2>1. MembershipTypeOK
    BY DEF Init, NoTeams, MembershipTypeOK
  <2>2. now \in Seconds
    BY BoundsAreNatural DEF Init, Seconds
  <2>3. /\ \A i \in Tasks : ~Exists(i) /\ history[i] = << >>
        /\ \A c \in Clients : tx[c] = None
    BY DEF Init, Exists
  <2>4. TypeOK
    BY <2>1, <2>2 DEF Init, TypeOK
  <2> QED
    BY <2>3, <2>4 DEF Inv, HistoryIsOrdered, UpdatesAreRecorded, TransactionFits, OneWriter
<1>2. Inv /\ [Next]_vars => Inv'
  BY StepInv
<1> QED
  BY <1>1, <1>2, PTL DEF Spec

-------------------------------------------------------------------------------
(* The team summary *)

MyTeams(u) == {t \in Teams : IsMember(t, u)}

Members(t) == {v \in Users : IsMember(t, v)}

TasksOf(t) == {i \in Tasks : Exists(i) /\ tasks[i].team = t}

JoinedRows(caller, t) == {row \in TeamRows(caller) : row[1] = t}

(* The join has every team with each of its members, and with each of its      *)
(* tasks or None.                                                              *)
LEMMA JoinedTeam ==
    ASSUME NEW caller \in Users, NEW t \in MyTeams(caller)
    PROVE  JoinedRows(caller, t) =
              {t} \X Members(t) \X (IF TasksOf(t) = {} THEN {None} ELSE TasksOf(t))
BY DEF JoinedRows, TeamRows, MyTeams, Members, TasksOf

LEMMA JoinedTeams ==
    ASSUME NEW caller \in Users
    PROVE  {row[1] : row \in TeamRows(caller)} = MyTeams(caller)
<1>1. \A row \in TeamRows(caller) : row[1] \in MyTeams(caller)
  BY DEF TeamRows, MyTeams
<1>2. ASSUME NEW t \in MyTeams(caller)
      PROVE  \E row \in TeamRows(caller) : row[1] = t
  <2>1. PICK i \in (IF TasksOf(t) = {} THEN {None} ELSE TasksOf(t)) : TRUE
    OBVIOUS
  <2>2. <<t, caller, i>> \in JoinedRows(caller, t)
    BY <2>1, JoinedTeam DEF MyTeams, Members
  <2> QED
    BY <2>2 DEF JoinedRows
<1> QED
  BY <1>1, <1>2

LEMMA SummaryRow ==
    ASSUME NEW caller \in Users, NEW t \in MyTeams(caller)
    PROVE  /\ {row[2] : row \in JoinedRows(caller, t)} = Members(t)
           /\ {i \in {row[3] : row \in JoinedRows(caller, t)} : DoneLately(i)}
                 = {i \in TasksOf(t) : DoneLately(i)}
<1>1. caller \in Members(t)
  BY DEF MyTeams, Members
<1> DEFINE third == IF TasksOf(t) = {} THEN {None} ELSE TasksOf(t)
<1>2. JoinedRows(caller, t) = {t} \X Members(t) \X third
  BY JoinedTeam
<1>3. PICK i \in third : TRUE
  OBVIOUS
<1>4. third \ {None} = TasksOf(t)
  BY NoneIsNoTask DEF TasksOf
<1> HIDE DEF third
<1>5. {row[2] : row \in JoinedRows(caller, t)} = Members(t)
  <2>1. ASSUME NEW v \in Members(t)
        PROVE  \E row \in JoinedRows(caller, t) : row[2] = v
    <3>1. <<t, v, i>> \in JoinedRows(caller, t) /\ <<t, v, i>>[2] = v
      BY <1>2, <1>3
    <3> QED
      BY <3>1
  <2>2. \A row \in JoinedRows(caller, t) : row[2] \in Members(t)
    BY <1>2
  <2> QED
    BY <2>1, <2>2
<1>6. {row[3] : row \in JoinedRows(caller, t)} = third
  <2>1. ASSUME NEW x \in third
        PROVE  \E row \in JoinedRows(caller, t) : row[3] = x
    <3>1. <<t, caller, x>> \in JoinedRows(caller, t) /\ <<t, caller, x>>[3] = x
      BY <1>1, <1>2
    <3> QED
      BY <3>1
  <2>2. \A row \in JoinedRows(caller, t) : row[3] \in third
    BY <1>2
  <2> QED
    BY <2>1, <2>2
<1> QED
  BY <1>4, <1>5, <1>6 DEF DoneLately

(* The query goes by updated_at, the property by the audit trail.  The two may *)
(* be of different seconds, the revision's being the later.                    *)
LEMMA DoneLatelyByTrail ==
    ASSUME Inv, NEW t
    PROVE  /\ {i \in TasksOf(t) : DoneLately(i)} \subseteq {i \in Finished(t) : ChangedLately(i)}
           /\ {i \in Finished(t) : tasks[i].created_at >= now - Week}
                 \subseteq {i \in TasksOf(t) : DoneLately(i)}
<1>1. ASSUME NEW i \in Tasks, Exists(i)
      PROVE  /\ UpdatesAreRecorded(i) /\ i # None /\ now \in Nat /\ Week \in Nat
             /\ tasks[i].created_at \in Nat /\ tasks[i].updated_at \in Nat
             /\ \A n \in DOMAIN history[i] : history[i][n].changed_at \in Nat
  <2>1. TypeOK /\ UpdatesAreRecorded(i)
    BY DEF Inv
  <2> QED
    BY <1>1, <2>1, NoneIsNoTask, SecondsAreNatural, BoundsAreNatural, HistoryTyped
    DEF TypeOK, Exists, Task
<1>2. ASSUME NEW i \in TasksOf(t), DoneLately(i)
      PROVE  i \in Finished(t) /\ ChangedLately(i)
  <2>1. i \in Tasks /\ Exists(i) /\ tasks[i].team = t
    BY DEF TasksOf
  <2>2. tasks[i].status = "done" /\ tasks[i].updated_at >= now - Week
    BY <1>2 DEF DoneLately
  <2>3. HasDone(history[i])
    BY <1>1, <2>1, <2>2 DEF UpdatesAreRecorded
  <2>4. PICK n \in DOMAIN history[i] : tasks[i].updated_at <= history[i][n].changed_at
    BY <1>1, <2>1, <2>2 DEF UpdatesAreRecorded
  <2>5. history[i][n].changed_at >= now - Week
    BY <1>1, <2>1, <2>2, <2>4
  <2> QED
    BY <2>1, <2>2, <2>3, <2>5 DEF Finished, HasDone, ChangedLately
<1>3. ASSUME NEW i \in Finished(t), tasks[i].created_at >= now - Week
      PROVE  i \in TasksOf(t) /\ DoneLately(i)
  <2>1. i \in Tasks /\ Exists(i) /\ tasks[i].team = t /\ tasks[i].status = "done"
    BY DEF Finished
  <2>2. tasks[i].created_at <= tasks[i].updated_at
    BY <1>1, <2>1 DEF UpdatesAreRecorded
  <2>3. tasks[i].updated_at >= now - Week
    BY <1>1, <1>3, <2>1, <2>2
  <2> QED
    BY <1>1, <2>1, <2>3 DEF TasksOf, DoneLately
<1> QED
  BY <1>2, <1>3

Summary(t) ==
    [team         |-> t,
     member_count |-> Cardinality(Members(t)),
     done_tasks   |-> Cardinality({i \in TasksOf(t) : DoneLately(i)})]

LEMMA SummaryIs ==
    ASSUME NEW u \in Users
    PROVE  TeamsSummary(u) = {Summary(t) : t \in MyTeams(u)}
<1>1. TeamsSummary(u) =
         {[team         |-> t,
           member_count |-> Cardinality({row[2] : row \in JoinedRows(u, t)}),
           done_tasks   |-> Cardinality({i \in {row[3] : row \in JoinedRows(u, t)} : DoneLately(i)})]
          : t \in {row[1] : row \in TeamRows(u)}}
  BY DEF TeamsSummary, JoinedRows
<1>2. {row[1] : row \in TeamRows(u)} = MyTeams(u)
  BY JoinedTeams
<1>3. \A t \in MyTeams(u) :
         /\ {row[2] : row \in JoinedRows(u, t)} = Members(t)
         /\ {i \in {row[3] : row \in JoinedRows(u, t)} : DoneLately(i)}
               = {i \in TasksOf(t) : DoneLately(i)}
  BY SummaryRow
<1> QED
  BY <1>1, <1>2, <1>3 DEF Summary

LEMMA ListedTeams ==
    ASSUME NEW u \in Users
    PROVE  {row.team : row \in ListForUser(u)} = MyTeams(u)
<1>1. \A row \in ListForUser(u) : row.team \in MyTeams(u)
  BY DEF ListForUser, MyTeams
<1>2. ASSUME NEW t \in MyTeams(u)
      PROVE  \E row \in ListForUser(u) : row.team = t
  <2>1. [team |-> t, role |-> GetRole(t, u)] \in ListForUser(u)
    BY DEF ListForUser, MyTeams
  <2> QED
    BY <2>1
<1> QED
  BY <1>1, <1>2

(* The tables keep their types.                                                *)
THEOREM Typing == Spec => []TypeOK
<1>1. Inv => TypeOK
  BY DEF Inv
<1> QED
  BY <1>1, InvHolds, PTL

(* However many tasks and members multiply in the join, the summary has each   *)
(* of the caller's teams, each member once, each task once, and of them those  *)
(* only that the audit trail shows moved to done and changed in the week; and  *)
(* none is missing that is done and no older than the week, on whichever sides *)
(* of its edge the statements of an update fall.                               *)
THEOREM SummaryCounts == Spec => []SummaryIsRight
<1>1. Inv => SummaryIsRight
  <2> SUFFICES ASSUME Inv, NEW u \in Users, NEW answer \in GetTeamsSummary(u), answer.status = 200
               PROVE  /\ {row.team : row \in answer.data} = {row.team : row \in ListForUser(u)}
                      /\ \A row \in answer.data :
                            /\ row.member_count = Cardinality({v \in Users : IsMember(row.team, v)})
                            /\ row.done_tasks <=
                                  Cardinality({i \in Finished(row.team) : ChangedLately(i)})
                            /\ row.done_tasks >=
                                  Cardinality({i \in Finished(row.team) :
                                                  tasks[i].created_at >= now - Week})
    BY Zenon DEF SummaryIsRight
  <2>1. answer.data = TeamsSummary(u)
    BY DEF GetTeamsSummary, Failure, Refusal
  <2>2. answer.data = {Summary(t) : t \in MyTeams(u)}
    BY <2>1, SummaryIs
  <2>3. \A t \in MyTeams(u) : Summary(t).team = t
    BY DEF Summary
  <2>4. {row.team : row \in answer.data} = MyTeams(u)
    <3>1. \A t \in MyTeams(u) : \E row \in answer.data : row.team = t
      BY <2>2, <2>3
    <3>2. \A row \in answer.data : row.team \in MyTeams(u)
      BY <2>2, <2>3
    <3> QED
      BY <3>1, <3>2
  <2>5. ASSUME NEW row \in answer.data
        PROVE  /\ row.member_count = Cardinality({v \in Users : IsMember(row.team, v)})
               /\ row.done_tasks <= Cardinality({i \in Finished(row.team) : ChangedLately(i)})
               /\ row.done_tasks >= Cardinality({i \in Finished(row.team) :
                                                    tasks[i].created_at >= now - Week})
    <3>1. PICK t \in MyTeams(u) : row = Summary(t)
      BY <2>2
    <3> DEFINE counted == {i \in TasksOf(t) : DoneLately(i)}
               atMost == {i \in Finished(t) : ChangedLately(i)}
               atLeast == {i \in Finished(t) : tasks[i].created_at >= now - Week}
    <3>2. /\ row.team = t /\ row.member_count = Cardinality(Members(t))
          /\ row.done_tasks = Cardinality(counted)
      BY <3>1 DEF Summary
    <3>3. counted \subseteq atMost /\ atLeast \subseteq counted
      BY DoneLatelyByTrail
    <3>4. atMost \subseteq Tasks /\ IsFiniteSet(Tasks)
      BY IdsAreFinite DEF Finished
    <3> HIDE DEF counted, atMost, atLeast
    <3>5. /\ IsFiniteSet(atMost) /\ IsFiniteSet(counted)
          /\ Cardinality(counted) <= Cardinality(atMost)
          /\ Cardinality(atLeast) <= Cardinality(counted)
      BY <3>3, <3>4, FS_Subset
    <3>6. Cardinality(counted) \in Nat /\ IsFiniteSet(atLeast) /\ Cardinality(atLeast) \in Nat
      BY <3>3, <3>5, FS_CardinalityType, FS_Subset
    <3>7. row.done_tasks <= Cardinality(atMost) /\ row.done_tasks >= Cardinality(atLeast)
      BY <3>2, <3>5, <3>6
    <3> QED
      BY <3>2, <3>7 DEF Members, atMost, atLeast
  <2> QED
    BY <2>4, <2>5, ListedTeams
<1> QED
  BY <1>1, InvHolds, PTL

-------------------------------------------------------------------------------
(* The ranking of creators *)

(* Who is before whom in ROW_NUMBER's order                                    *)
Before(counts, v, u) == counts[v] > counts[u] \/ (counts[v] = counts[u] /\ v < u)

Ahead(counts, u) == {v \in DOMAIN counts : Before(counts, v, u)}

LEMMA RankIsPosition ==
    ASSUME NEW C \in SUBSET Nat, IsFiniteSet(C), NEW counts \in [C -> Nat], NEW u \in C
    PROVE  /\ IsFiniteSet(Ahead(counts, u)) /\ Cardinality(Ahead(counts, u)) \in Nat
           /\ Rank(counts, u) = 1 + Cardinality(Ahead(counts, u))
           /\ Rank(counts, u) \in 1 .. Cardinality(C)
<1>1. Ahead(counts, u) \in SUBSET (C \ {u})
  BY DEF Ahead, Before
<1>2. /\ IsFiniteSet(C \ {u}) /\ Cardinality(C \ {u}) = Cardinality(C) - 1
      /\ Cardinality(C) \in Nat
  BY FS_RemoveElement, FS_CardinalityType
<1>3. /\ IsFiniteSet(Ahead(counts, u)) /\ Cardinality(Ahead(counts, u)) \in Nat
      /\ Cardinality(Ahead(counts, u)) <= Cardinality(C) - 1
  BY <1>1, <1>2, FS_Subset, FS_CardinalityType
<1>4. Rank(counts, u) = 1 + Cardinality(Ahead(counts, u))
  BY DEF Rank, Ahead, Before
<1> QED
  BY <1>2, <1>3, <1>4

LEMMA RankFollowsOrder ==
    ASSUME NEW C \in SUBSET Nat, IsFiniteSet(C), NEW counts \in [C -> Nat],
           NEW v \in C, NEW u \in C, Before(counts, v, u)
    PROVE  Rank(counts, v) < Rank(counts, u)
<1>1. v \in Nat /\ u \in Nat /\ counts[v] \in Nat /\ counts[u] \in Nat
  OBVIOUS
<1>2. /\ IsFiniteSet(Ahead(counts, u)) /\ Cardinality(Ahead(counts, u)) \in Nat
      /\ Rank(counts, u) = 1 + Cardinality(Ahead(counts, u))
      /\ Cardinality(Ahead(counts, v)) \in Nat
      /\ Rank(counts, v) = 1 + Cardinality(Ahead(counts, v))
  BY RankIsPosition
<1>3. v \in Ahead(counts, u)
  BY DEF Ahead
<1>4. ASSUME NEW w \in Ahead(counts, v)
      PROVE  w \in Ahead(counts, u) \ {v}
  <2>1. w \in C /\ w \in Nat /\ counts[w] \in Nat /\ Before(counts, w, v)
    BY DEF Ahead
  <2> QED
    BY <1>1, <2>1 DEF Ahead, Before
<1>5. /\ IsFiniteSet(Ahead(counts, u) \ {v})
      /\ Cardinality(Ahead(counts, u) \ {v}) = Cardinality(Ahead(counts, u)) - 1
  BY <1>2, <1>3, FS_RemoveElement
<1>6. Cardinality(Ahead(counts, v)) <= Cardinality(Ahead(counts, u)) - 1
  <2>1. Ahead(counts, v) \in SUBSET (Ahead(counts, u) \ {v})
    BY <1>4
  <2> QED
    BY <1>5, <2>1, FS_Subset
<1> QED
  BY <1>2, <1>6

(* The order is total and without ties, and so the ranks of n creators are     *)
(* exactly 1 to n.                                                             *)
LEMMA RanksAreAll ==
    ASSUME NEW C \in SUBSET Nat, IsFiniteSet(C), NEW counts \in [C -> Nat]
    PROVE  /\ \A v, u \in C : v # u => Rank(counts, v) # Rank(counts, u)
           /\ \A n \in 1 .. Cardinality(C) : \E u \in C : Rank(counts, u) = n
<1>1. \A u \in C : Rank(counts, u) \in 1 .. Cardinality(C)
  BY RankIsPosition
<1>2. ASSUME NEW v \in C, NEW u \in C, v # u
      PROVE  Rank(counts, v) # Rank(counts, u)
  <2>1. v \in Nat /\ u \in Nat /\ counts[v] \in Nat /\ counts[u] \in Nat
    OBVIOUS
  <2>2. Before(counts, v, u) \/ Before(counts, u, v)
    BY <1>2, <2>1 DEF Before
  <2>3. Rank(counts, v) < Rank(counts, u) \/ Rank(counts, u) < Rank(counts, v)
    BY <2>2, RankFollowsOrder
  <2> QED
    BY <1>1, <2>3
<1> DEFINE N == Cardinality(C)
           rank == [u \in C |-> Rank(counts, u)]
<1>3. N \in Nat
  BY FS_CardinalityType
<1>4. IsFiniteSet(1 .. N) /\ Cardinality(1 .. N) = N
  BY <1>3, FS_Interval
<1>5. rank \in Injection(C, 1 .. N)
  <2>1. rank \in [C -> 1 .. N]
    BY <1>1
  <2>2. \A a, b \in C : rank[a] = rank[b] => a = b
    BY <1>2
  <2> HIDE DEF rank, N
  <2> QED
    BY <2>1, <2>2, Fun_IsInj
<1>6. rank \in Surjection(C, 1 .. N)
  <2> HIDE DEF rank
  <2> QED
    BY <1>4, <1>5, FS_Injection
<1>7. \A n \in 1 .. N : \E u \in C : rank[u] = n
  <2> HIDE DEF rank, N
  <2> QED
    BY <1>6, Fun_SurjectionProperties
<1> QED
  BY <1>2, <1>7

TopRow(t, counts, v) ==
    [team |-> t, user |-> v, tasks_created |-> counts[v], rank |-> Rank(counts, v)]

TopRows(t, counts) == {row \in {TopRow(t, counts, v) : v \in DOMAIN counts} : row.rank <= MaxRank}

(* A set of rows that has those of the creators C with a rank up to MaxRank    *)
Fit(rows, t, C, counts) ==
    /\ \A row \in rows :
          /\ row.user \in C /\ row = TopRow(t, counts, row.user)
          /\ row.tasks_created = counts[row.user]
          /\ row.rank = Rank(counts, row.user) /\ row.rank <= MaxRank
    /\ \A v \in C : Rank(counts, v) <= MaxRank =>
          \E row \in rows : row.user = v /\ row.rank = Rank(counts, v)

LEMMA TopRowsFit ==
    ASSUME NEW t, NEW C, NEW counts \in [C -> Nat]
    PROVE  Fit(TopRows(t, counts), t, C, counts)
<1>1. \A v \in C : /\ TopRow(t, counts, v).user = v
                   /\ TopRow(t, counts, v).tasks_created = counts[v]
                   /\ TopRow(t, counts, v).rank = Rank(counts, v)
  BY DEF TopRow
<1>2. TopRows(t, counts) = {row \in {TopRow(t, counts, v) : v \in C} : row.rank <= MaxRank}
  BY DEF TopRows
<1>3. ASSUME NEW row \in TopRows(t, counts)
      PROVE  /\ row.user \in C /\ row = TopRow(t, counts, row.user)
             /\ row.tasks_created = counts[row.user]
             /\ row.rank = Rank(counts, row.user) /\ row.rank <= MaxRank
  <2>1. PICK v \in C : row = TopRow(t, counts, v)
    BY <1>2
  <2>2. row.rank <= MaxRank
    BY <1>2
  <2> QED
    BY <1>1, <2>1, <2>2
<1>4. ASSUME NEW v \in C, Rank(counts, v) <= MaxRank
      PROVE  \E row \in TopRows(t, counts) : row.user = v /\ row.rank = Rank(counts, v)
  <2>1. TopRow(t, counts, v) \in TopRows(t, counts)
    BY <1>1, <1>2, <1>4
  <2> QED
    BY <1>1, <2>1
<1> QED
  BY <1>3, <1>4 DEF Fit

LEMMA RankingIsRight ==
    ASSUME NEW t, NEW C \in SUBSET Nat, IsFiniteSet(C), NEW counts \in [C -> Nat]
    PROVE  /\ {row.rank : row \in TopRows(t, counts)} = 1 .. Minimum(MaxRank, Cardinality(C))
           /\ Cardinality(TopRows(t, counts)) = Minimum(MaxRank, Cardinality(C))
           /\ \A row \in TopRows(t, counts) :
                 \A v \in C \ {r.user : r \in TopRows(t, counts)} : counts[v] <= row.tasks_created
<1> DEFINE rows == TopRows(t, counts)
           k == Minimum(MaxRank, Cardinality(C))
<1>1. MaxRank \in Nat /\ Cardinality(C) \in Nat
  BY BoundsAreNatural, FS_CardinalityType
<1>2. k \in Nat /\ \A n \in Nat : n <= k <=> n <= MaxRank /\ n <= Cardinality(C)
  BY <1>1 DEF Minimum
<1>3. /\ \A v, u \in C : v # u => Rank(counts, v) # Rank(counts, u)
      /\ \A n \in 1 .. Cardinality(C) : \E u \in C : Rank(counts, u) = n
      /\ \A u \in C : Rank(counts, u) \in 1 .. Cardinality(C)
  BY RanksAreAll, RankIsPosition
<1>4. Fit(rows, t, C, counts)
  BY TopRowsFit
<1> HIDE DEF rows, k
<1>5. ASSUME NEW row \in rows
      PROVE  row.rank \in 1 .. k
  <2>1. row.user \in C /\ row.rank = Rank(counts, row.user) /\ row.rank <= MaxRank
    BY <1>4 DEF Fit
  <2>2. row.rank \in 1 .. Cardinality(C)
    BY <1>3, <2>1
  <2>3. row.rank \in Nat /\ 1 <= row.rank /\ row.rank <= Cardinality(C)
    BY <1>1, <2>2
  <2>4. row.rank <= k
    BY <1>2, <2>1, <2>3
  <2> QED
    BY <1>2, <2>3, <2>4
<1>6. ASSUME NEW n \in 1 .. k
      PROVE  \E row \in rows : row.rank = n
  <2>1. n \in 1 .. Cardinality(C) /\ n <= MaxRank
    BY <1>1, <1>2
  <2>2. PICK u \in C : Rank(counts, u) = n
    BY <1>3, <2>1
  <2> QED
    BY <1>4, <2>1, <2>2 DEF Fit
<1>7. {row.rank : row \in rows} = 1 .. k
  BY <1>5, <1>6
<1>8. Cardinality(rows) = k
  <2> DEFINE rank == [row \in rows |-> row.rank]
  <2>1. rank \in [rows -> 1 .. k]
    BY <1>5
  <2>2. ASSUME NEW a \in rows, NEW b \in rows, a.rank = b.rank
        PROVE  a = b
    <3>1. /\ a.user \in C /\ a = TopRow(t, counts, a.user) /\ a.rank = Rank(counts, a.user)
          /\ b.user \in C /\ b = TopRow(t, counts, b.user) /\ b.rank = Rank(counts, b.user)
      BY <1>4 DEF Fit
    <3>2. a.user = b.user
      BY <1>3, <2>2, <3>1
    <3> QED
      BY <3>1, <3>2
  <2>3. rank \in Injection(rows, 1 .. k)
    BY <2>1, <2>2, Fun_IsInj
  <2>4. rank \in Surjection(rows, 1 .. k)
    BY <1>6, <2>1, Fun_IsSurj
  <2>5. IsFiniteSet(1 .. k) /\ Cardinality(1 .. k) = k
    BY <1>2, FS_Interval
  <2> HIDE DEF rank
  <2> QED
    BY <2>3, <2>4, <2>5, FS_Injection
<1>9. ASSUME NEW row \in rows, NEW v \in C \ {r.user : r \in rows}
      PROVE  counts[v] <= row.tasks_created
  <2> DEFINE u == row.user
  <2>1. u \in C /\ v \in C /\ Rank(counts, u) <= MaxRank /\ row.tasks_created = counts[u]
    BY <1>4 DEF Fit
  <2>2. ~(Rank(counts, v) <= MaxRank)
    BY <1>4 DEF Fit
  <2> HIDE DEF u
  <2>3. counts[v] \in Nat /\ counts[u] \in Nat /\ Rank(counts, v) \in Nat /\ Rank(counts, u) \in Nat
    BY <1>1, <1>3, <2>1
  <2>4. ASSUME counts[v] > counts[u]
        PROVE  FALSE
    <3>1. Before(counts, v, u)
      BY <2>4 DEF Before
    <3>2. Rank(counts, v) < Rank(counts, u)
      BY <2>1, <3>1, RankFollowsOrder
    <3> QED
      BY <1>1, <2>1, <2>2, <2>3, <3>2
  <2> QED
    BY <2>1, <2>3, <2>4
<1> QED
  BY <1>7, <1>8, <1>9 DEF rows, k

(* Months are MonthLength long, whichever moment one is found by.               *)
LEMMA SameMonth ==
    ASSUME NEW d \in Nat, NEW q \in Nat
    PROVE  d \in q * MonthLength .. q * MonthLength + MonthLength - 1 <=> d \div MonthLength = q
<1> DEFINE M == MonthLength
           p == d \div M
<1>1. M \in Nat \ {0}
  BY BoundsAreNatural
<1>2. p \in Nat /\ p * M <= d /\ d < p * M + M
  BY <1>1
<1>3. q * M \in Nat /\ p * M \in Nat
  BY <1>1, <1>2
<1> HIDE DEF p, M
<1>4. p < q => p * M + M <= q * M
  BY <1>1, <1>2
<1>5. q < p => q * M + M <= p * M
  BY <1>1, <1>2
<1>6. d \in q * M .. q * M + M - 1 <=> p = q
  BY <1>1, <1>2, <1>3, <1>4, <1>5
<1> QED
  BY <1>6 DEF p, M

LEMMA MonthStarts ==
    ASSUME NEW d \in Nat
    PROVE  /\ d - (d % MonthLength) = (d \div MonthLength) * MonthLength
           /\ d \div MonthLength \in Nat
<1>1. MonthLength \in Nat \ {0}
  BY BoundsAreNatural
<1> QED
  BY <1>1

MonthOf(month) == IF month = Absent THEN now \div MonthLength ELSE month

LEMMA RangeIsMonth ==
    ASSUME TypeOK, NEW month \in {Absent} \union Nat, NEW d \in Seconds
    PROVE  d \in parseMonthParam(month).start .. parseMonthParam(month).end - 1
              <=> d \div MonthLength = MonthOf(month)
<1>1. d \in Nat /\ now \in Nat /\ MonthLength \in Nat \ {0}
  BY SecondsAreNatural, BoundsAreNatural DEF TypeOK
<1> DEFINE day == IF month = Absent THEN now ELSE month * MonthLength
<1>2. day \in Nat /\ day \div MonthLength = MonthOf(month)
  <2>1. CASE month = Absent
    BY <1>1, <2>1 DEF MonthOf
  <2>2. CASE month # Absent
    <3>1. month \in Nat /\ month * MonthLength \in Nat
      <4>1. month \in Nat
        BY <2>2, SecondsAreNatural
      <4> QED
        BY <1>1, <4>1
    <3>2. month * MonthLength \in month * MonthLength .. month * MonthLength + MonthLength - 1
      BY <1>1, <3>1
    <3>3. (month * MonthLength) \div MonthLength = month
      BY <3>1, <3>2, SameMonth
    <3> QED
      BY <2>2, <3>1, <3>3 DEF MonthOf
  <2> QED
    BY <2>1, <2>2
<1>3. /\ parseMonthParam(month).start = day - (day % MonthLength)
      /\ parseMonthParam(month).end = parseMonthParam(month).start + MonthLength
  BY DEF parseMonthParam, MonthRangeFor
<1> HIDE DEF day
<1> DEFINE q == day \div MonthLength
<1>4. q \in Nat /\ parseMonthParam(month).start = q * MonthLength
  BY <1>2, <1>3, MonthStarts
<1> HIDE DEF q
<1>5. d \in q * MonthLength .. q * MonthLength + MonthLength - 1 <=> d \div MonthLength = q
  BY <1>1, <1>4, SameMonth
<1>6. parseMonthParam(month).end = q * MonthLength + MonthLength
  BY <1>3, <1>4
<1>7. q = MonthOf(month)
  BY <1>2 DEF q
<1> DEFINE first == q * MonthLength
<1>8. first \in Nat
  BY <1>1, <1>4
<1>9. d \in first .. first + MonthLength - 1 <=> d \div MonthLength = MonthOf(month)
  BY <1>5, <1>7
<1>10. parseMonthParam(month).start = first /\ parseMonthParam(month).end = first + MonthLength
  BY <1>4, <1>6
<1> HIDE DEF first
<1>11. parseMonthParam(month).start .. parseMonthParam(month).end - 1 = first .. first + MonthLength - 1
  BY <1>1, <1>8, <1>10
<1> QED
  BY <1>9, <1>11, Zenon

LEMMA CountsAre ==
    ASSUME TypeOK, NEW month \in {Absent} \union Nat, NEW t \in Teams
    PROVE  LET counts == CountsOf(t, parseMonthParam(month))
               C == Creators(t, month)
           IN  /\ C \in SUBSET Nat /\ IsFiniteSet(C) /\ counts \in [C -> Nat]
               /\ \A v \in C : counts[v] = Cardinality(Made(t, v, month))
<1> DEFINE range == parseMonthParam(month)
<1>1. ASSUME NEW v \in Users
      PROVE  {i \in Tasks : Exists(i) /\ tasks[i].team = t /\ tasks[i].by = v
                            /\ tasks[i].created_at \in range.start .. range.end - 1} = Made(t, v, month)
  <2>1. ASSUME NEW i \in Tasks, Exists(i)
        PROVE  tasks[i].created_at \in range.start .. range.end - 1
                  <=> tasks[i].created_at \div MonthLength = MonthOf(month)
    <3>1. tasks[i].created_at \in Seconds
      BY <2>1 DEF TypeOK, Task, Exists
    <3> QED
      BY <3>1, RangeIsMonth
  <2> HIDE DEF range
  <2> QED
    BY <2>1 DEF Made, MonthOf
<1>2. CountsOf(t, range) = [v \in Creators(t, month) |-> Cardinality(Made(t, v, month))]
  <2> HIDE DEF range
  <2> QED
    BY <1>1 DEF CountsOf, Creators
<1>3. ASSUME NEW v
      PROVE  Cardinality(Made(t, v, month)) \in Nat
  <2>1. Made(t, v, month) \in SUBSET Tasks
    BY DEF Made
  <2> QED
    BY <2>1, IdsAreFinite, FS_Subset, FS_CardinalityType
<1>4. Creators(t, month) \in SUBSET Users
  BY DEF Creators
<1>5. Creators(t, month) \in SUBSET Nat /\ IsFiniteSet(Creators(t, month))
  BY <1>4, IdsAreFinite, UserIdsAreNumbers, FS_Subset
<1> QED
  BY <1>2, <1>3, <1>5

LEMMA TopCreatorsOfTeam ==
    ASSUME NEW u \in Users, NEW t \in Teams, IsMember(t, u), NEW range
    PROVE  {row \in TopCreators(u, range) : row.team = t} = TopRows(t, CountsOf(t, range))
<1>1. TopCreators(u, range) = UNION {TopRows(s, CountsOf(s, range)) : s \in {s \in Teams : IsMember(s, u)}}
  BY DEF TopCreators, TopRows, TopRow
<1>2. \A s \in Teams : \A row \in TopRows(s, CountsOf(s, range)) : row.team = s
  BY DEF TopRows, TopRow
<1> QED
  BY <1>1, <1>2

(* A team's ranking for a month has no gap and no tie, is cut at MaxRank only, *)
(* leaves out nobody who made more than somebody in it, and counts every task  *)
(* in the month it was made in, whatever the length of a month and the number  *)
(* of creators.                                                                *)
THEOREM RankingsAreFair == Spec => []TopCreatorsAreRight
<1>1. Inv => TopCreatorsAreRight
  <2> SUFFICES ASSUME TypeOK, NEW u \in Users, NEW month \in {Absent} \union Months,
                      NEW answer \in GetTopCreators(u, month), NEW t \in Teams,
                      answer.status = 200, IsMember(t, u)
               PROVE  LET rows == {row \in answer.data : row.team = t}
                          length == Minimum(MaxRank, Cardinality(Creators(t, month)))
                      IN  /\ {row.rank : row \in rows} = 1 .. length
                          /\ Cardinality(rows) = length
                          /\ \A row \in rows :
                                /\ row.tasks_created = Cardinality(Made(t, row.user, month))
                                /\ \A v \in Creators(t, month) \ {r.user : r \in rows} :
                                      Cardinality(Made(t, v, month)) <= row.tasks_created
    BY DEF Inv, TopCreatorsAreRight
  <2> DEFINE C == Creators(t, month)
             rows == {row \in answer.data : row.team = t}
             counts == CountsOf(t, parseMonthParam(month))
  <2>1. month \in {Absent} \union Nat /\ month # Malformed
    <3>1. \A second \in Seconds : second \div MonthLength \in Nat
      BY SecondsAreNatural, BoundsAreNatural
    <3> QED
      BY <3>1 DEF Months, Absent, Malformed
  <2>2. answer.data = TopCreators(u, parseMonthParam(month))
    BY <2>1 DEF GetTopCreators, Failure, Refusal
  <2>3. rows = TopRows(t, counts)
    BY <2>2, TopCreatorsOfTeam
  <2>4. /\ C \in SUBSET Nat /\ IsFiniteSet(C) /\ counts \in [C -> Nat]
        /\ \A v \in C : counts[v] = Cardinality(Made(t, v, month))
    BY <2>1, CountsAre
  <2> HIDE DEF C, rows, counts
  <2>5. /\ {row.rank : row \in rows} = 1 .. Minimum(MaxRank, Cardinality(C))
        /\ Cardinality(rows) = Minimum(MaxRank, Cardinality(C))
        /\ \A row \in rows : \A v \in C \ {r.user : r \in rows} : counts[v] <= row.tasks_created
    BY <2>3, <2>4, RankingIsRight
  <2>6. \A row \in rows : row.user \in C /\ row.tasks_created = counts[row.user]
    <3>1. Fit(rows, t, C, counts)
      BY <2>3, <2>4, TopRowsFit
    <3> QED
      BY <3>1 DEF Fit
  <2>7. /\ \A row \in rows : row.tasks_created = Cardinality(Made(t, row.user, month))
        /\ \A row \in rows : \A v \in C \ {r.user : r \in rows} :
              Cardinality(Made(t, v, month)) <= row.tasks_created
    <3>1. ASSUME NEW row \in rows
          PROVE  row.tasks_created = Cardinality(Made(t, row.user, month))
      <4>1. row.user \in C /\ row.tasks_created = counts[row.user]
        BY <2>6
      <4> QED
        BY <2>4, <4>1
    <3>2. ASSUME NEW row \in rows, NEW v \in C \ {r.user : r \in rows}
          PROVE  Cardinality(Made(t, v, month)) <= row.tasks_created
      <4>1. counts[v] = Cardinality(Made(t, v, month))
        BY <2>4
      <4>2. counts[v] <= row.tasks_created
        BY <2>5
      <4> QED
        BY <4>1, <4>2
    <3> QED
      BY <3>1, <3>2
  <2> QED
    BY <2>5, <2>7 DEF C, rows
<1> QED
  BY <1>1, InvHolds, PTL

-------------------------------------------------------------------------------
(* The pages of a history *)

Sorted(h, L) == \A m, n \in 1 .. L : m <= n => h[m] <= h[n]

(* The orders that ORDER BY may give to L rows whose times are h               *)
Orderings(h, L) ==
    {order \in [1 .. L -> 1 .. L] :
        /\ \A m, n \in 1 .. L : m # n => order[m] # order[n]
        /\ \A m, n \in 1 .. L : m < n => h[order[m]] <= h[order[n]]}

(* However ties are broken, the times are read in the same order.              *)
LEMMA TimesAreInOrder ==
    ASSUME NEW L \in Nat, NEW h \in [1 .. L -> Nat], Sorted(h, L),
           NEW order \in Orderings(h, L), NEW n \in 1 .. L
    PROVE  h[order[n]] = h[n]
<1>1. /\ order \in [1 .. L -> 1 .. L]
      /\ \A m, k \in 1 .. L : m # k => order[m] # order[k]
      /\ \A m, k \in 1 .. L : m <= k => h[order[m]] <= h[order[k]]
  BY DEF Orderings
<1>2. \A m \in 1 .. L : order[m] \in 1 .. L /\ h[order[m]] \in Nat /\ h[m] \in Nat
  BY <1>1
<1>3. ASSUME h[order[n]] < h[n]
      PROVE  FALSE
  <2>1. ASSUME NEW m \in 1 .. n
        PROVE  order[m] \in 1 .. n - 1
    <3> m \in 1 .. L /\ m <= n
      OBVIOUS
    <3>1. m \in 1 .. L /\ h[order[m]] <= h[order[n]]
      BY <1>1
    <3>2. h[order[m]] < h[n]
      BY <1>2, <1>3, <3>1
    <3>3. ~(n <= order[m])
      BY <1>2, <3>1, <3>2 DEF Sorted
    <3> QED
      BY <1>2, <3>1, <3>3
  <2> DEFINE f == [m \in 1 .. n |-> order[m]]
  <2>2. f \in [1 .. n -> 1 .. n - 1]
    BY <2>1
  <2>3. /\ IsFiniteSet(1 .. n) /\ Cardinality(1 .. n) = n
        /\ IsFiniteSet(1 .. n - 1) /\ Cardinality(1 .. n - 1) = n - 1
    BY FS_Interval
  <2>4. Cardinality(1 .. n - 1) < Cardinality(1 .. n)
    BY <2>3
  <2>5. \A a, b \in 1 .. n : a # b => f[a] # f[b]
    BY <1>1
  <2> HIDE DEF f
  <2> QED
    BY <2>2, <2>3, <2>4, <2>5, FS_PigeonHole
<1>4. ASSUME h[n] < h[order[n]]
      PROVE  FALSE
  <2>1. ASSUME NEW m \in n .. L
        PROVE  order[m] \in n + 1 .. L
    <3>1. m \in 1 .. L /\ h[order[n]] <= h[order[m]]
      BY <1>1
    <3>2. h[n] < h[order[m]]
      BY <1>2, <1>4, <3>1
    <3>3. ~(order[m] <= n)
      BY <1>2, <3>1, <3>2 DEF Sorted
    <3> QED
      BY <1>2, <3>1, <3>3
  <2> DEFINE f == [m \in n .. L |-> order[m]]
  <2>2. f \in [n .. L -> n + 1 .. L]
    BY <2>1
  <2>3. /\ IsFiniteSet(n .. L) /\ Cardinality(n .. L) = L - n + 1
        /\ IsFiniteSet(n + 1 .. L) /\ Cardinality(n + 1 .. L) = L - n
    BY FS_Interval
  <2>4. Cardinality(n + 1 .. L) < Cardinality(n .. L)
    BY <2>3
  <2>5. \A a, b \in n .. L : a # b => f[a] # f[b]
    BY <1>1
  <2> HIDE DEF f
  <2> QED
    BY <2>2, <2>3, <2>4, <2>5, FS_PigeonHole
<1> QED
  BY <1>2, <1>3, <1>4

(* An order is as good as the times it gives.                                  *)
LEMMA OrderByTimes ==
    ASSUME NEW L \in Nat, NEW h \in [1 .. L -> Nat], Sorted(h, L),
           NEW order \in [1 .. L -> 1 .. L],
           \A m, n \in 1 .. L : m # n => order[m] # order[n],
           \A n \in 1 .. L : h[order[n]] = h[n]
    PROVE  order \in Orderings(h, L)
BY SMTT(30) DEF Orderings, Sorted

(* Rows follow, none of them earlier than T.                                   *)
Extends(h, L, g, M, T) ==
    /\ L \in Nat /\ M \in Nat /\ L <= M
    /\ h \in [1 .. L -> Nat] /\ g \in [1 .. M -> Nat] /\ Sorted(h, L) /\ Sorted(g, M)
    /\ \A n \in 1 .. L : g[n] = h[n]
    /\ \A n \in 1 .. M : L < n => T <= g[n]

(* They leave alone how the first k rows may be ordered, if those are earlier. *)
LEMMA OrdersGoOn ==
    ASSUME NEW L, NEW h, NEW M, NEW g, NEW T, Extends(h, L, g, M, T),
           NEW order \in Orderings(h, L)
    PROVE  \E longer \in Orderings(g, M) : \A p \in 1 .. L : longer[p] = order[p]
<1> DEFINE longer == [p \in 1 .. M |-> IF p <= L THEN order[p] ELSE p]
<1>1. /\ L \in Nat /\ M \in Nat /\ L <= M
      /\ h \in [1 .. L -> Nat] /\ g \in [1 .. M -> Nat] /\ Sorted(h, L) /\ Sorted(g, M)
      /\ \A n \in 1 .. L : g[n] = h[n]
  BY DEF Extends
<1>2. /\ order \in [1 .. L -> 1 .. L]
      /\ \A m, n \in 1 .. L : m # n => order[m] # order[n]
      /\ \A n \in 1 .. L : h[order[n]] = h[n]
  BY <1>1, TimesAreInOrder DEF Orderings
<1>3. longer \in [1 .. M -> 1 .. M]
  BY <1>1, <1>2
<1>4. \A m, n \in 1 .. M : m # n => longer[m] # longer[n]
  BY <1>1, <1>2
<1>5. \A n \in 1 .. M : g[longer[n]] = g[n]
  BY <1>1, <1>2
<1>6. \A p \in 1 .. L : longer[p] = order[p]
  BY <1>1
<1> HIDE DEF longer
<1>7. longer \in Orderings(g, M)
  BY <1>1, <1>3, <1>4, <1>5, OrderByTimes
<1> QED
  BY <1>6, <1>7

LEMMA OrdersWereThere ==
    ASSUME NEW L, NEW h, NEW M, NEW g, NEW T \in Nat, Extends(h, L, g, M, T),
           NEW longer \in Orderings(g, M)
    PROVE  \E order \in Orderings(h, L) : \A p \in 1 .. L : h[p] < T => order[p] = longer[p]
<1> DEFINE order == [p \in 1 .. L |-> IF h[p] < T THEN longer[p] ELSE p]
<1>1. /\ L \in Nat /\ M \in Nat /\ L <= M
      /\ h \in [1 .. L -> Nat] /\ g \in [1 .. M -> Nat] /\ Sorted(h, L) /\ Sorted(g, M)
      /\ \A n \in 1 .. L : g[n] = h[n]
      /\ \A n \in 1 .. M : L < n => T <= g[n]
  BY DEF Extends
<1>2. /\ longer \in [1 .. M -> 1 .. M]
      /\ \A m, n \in 1 .. M : m # n => longer[m] # longer[n]
      /\ \A n \in 1 .. M : g[longer[n]] = g[n]
  BY <1>1, TimesAreInOrder DEF Orderings
<1>3. ASSUME NEW p \in 1 .. L, h[p] < T
      PROVE  longer[p] \in 1 .. L /\ h[longer[p]] = h[p]
  <2>1. p \in 1 .. M /\ longer[p] \in 1 .. M /\ g[longer[p]] = h[p]
    BY <1>1, <1>2
  <2>2. ~(L < longer[p])
    <3> SUFFICES ASSUME L < longer[p]
                 PROVE  FALSE
      OBVIOUS
    <3>1. T <= h[p] /\ h[p] \in Nat
      BY <1>1, <2>1
    <3> QED
      BY <1>3, <3>1
  <2>3. longer[p] \in 1 .. L
    BY <1>1, <2>1, <2>2
  <2> QED
    BY <1>1, <2>1, <2>3
<1>4. \A p \in 1 .. L : order[p] \in 1 .. L /\ h[order[p]] = h[p]
  BY <1>3
<1>5. ASSUME NEW m \in 1 .. L, NEW n \in 1 .. L, order[m] = order[n]
      PROVE  m = n
  <2>1. h[m] = h[n]
    BY <1>4, <1>5
  <2>2. m \in 1 .. M /\ n \in 1 .. M
    BY <1>1
  <2> QED
    BY <1>2, <1>5, <2>1, <2>2
<1>6. order \in [1 .. L -> 1 .. L] /\ \A p \in 1 .. L : h[p] < T => order[p] = longer[p]
  BY <1>4
<1> HIDE DEF order
<1>7. order \in Orderings(h, L)
  BY <1>1, <1>4, <1>5, <1>6, OrderByTimes
<1> QED
  BY <1>6, <1>7

(* The orders of the rows s of a history *)
TimesOf(s) == [n \in 1 .. Len(s) |-> s[n].changed_at]

OrdersOf(s) ==
    {order \in SetToSeqs(DOMAIN s) :
        \A m, n \in DOMAIN order : m < n => Precedes(s[order[m]], s[order[n]])}

LEMMA OrdersAreOrderings ==
    ASSUME NEW s \in Seq(Revision)
    PROVE  /\ OrdersOf(s) = Orderings(TimesOf(s), Len(s))
           /\ Len(s) \in Nat /\ TimesOf(s) \in [1 .. Len(s) -> Nat]
           /\ \A order \in OrdersOf(s) : order \in Seq(1 .. Len(s)) /\ Len(order) = Len(s)
<1> DEFINE L == Len(s)
<1>1. L \in Nat /\ DOMAIN s = 1 .. L
  BY LenProperties
<1>2. \A n \in 1 .. L : s[n].changed_at \in Nat
  <2>1. \A n \in 1 .. L : s[n] \in Revision
    BY ElementOfSeq
  <2> QED
    BY <2>1, SecondsAreNatural DEF Revision
<1>3. TimesOf(s) \in [1 .. L -> Nat]
  BY <1>2 DEF TimesOf
<1> HIDE DEF L
<1>4. Cardinality(1 .. L) = L
  BY <1>1, FS_Interval
<1>5. SetToSeqs(DOMAIN s) =
         {order \in [1 .. L -> 1 .. L] : \A m, n \in 1 .. L : m # n => order[m] # order[n]}
  BY <1>1, <1>4 DEF SetToSeqs
<1>6. ASSUME NEW order \in [1 .. L -> 1 .. L]
      PROVE  (\A m, n \in DOMAIN order : m < n => Precedes(s[order[m]], s[order[n]]))
                <=> \A m, n \in 1 .. L : m < n => TimesOf(s)[order[m]] <= TimesOf(s)[order[n]]
  BY <1>1 DEF TimesOf, Precedes, L
<1>7. OrdersOf(s) = Orderings(TimesOf(s), L)
  BY <1>5, <1>6 DEF OrdersOf, Orderings
<1>8. \A order \in OrdersOf(s) : order \in Seq(1 .. L) /\ Len(order) = L
  <2>1. \A order \in OrdersOf(s) : order \in [1 .. L -> 1 .. L]
    BY <1>7 DEF Orderings
  <2> QED
    BY <1>1, <2>1, SeqDef
<1> QED
  BY <1>1, <1>3, <1>7, <1>8 DEF L

-------------------------------------------------------------------------------
(* What a page shows *)

LEMMA NoOverflow ==
    ASSUME NEW n \in Nat, n <= MaxInt
    PROVE  Wrap(n) = n
<1> DEFINE b == 2 * (MaxInt + 1)
           a == n + MaxInt + 1
<1>1. MaxInt \in Nat /\ b \in Nat /\ b > 0 /\ a \in 0 .. b - 1
  BY BoundsAreNatural
<1>2. Wrap(n) = (a % b) - (MaxInt + 1)
  BY DEF Wrap
<1>3. a = n + MaxInt + 1
  OBVIOUS
<1> HIDE DEF a, b
<1>4. a % b = a
  BY <1>1
<1> QED
  BY <1>1, <1>2, <1>3, <1>4

(* The times of the rows of a page, of a history with times h                  *)
Shown(h, data) == [n \in DOMAIN data |-> h[data[n]]]

(* data are the rows first .. last of an order of a history with times h        *)
IsPage(L, h, order, first, last, data) ==
    /\ L \in Nat /\ h \in [1 .. L -> Nat] /\ Sorted(h, L) /\ order \in Orderings(h, L)
    /\ first \in Nat \ {0} /\ last \in Nat /\ last <= L
    /\ data = SubSeq(order, first, last)

LEMMA PageShows ==
    ASSUME NEW L, NEW h, NEW order, NEW first, NEW last, NEW data,
           IsPage(L, h, order, first, last, data)
    PROVE  Shown(h, data) = SubSeq(h, first, last)
<1> DEFINE k == IF first <= last THEN last - first + 1 ELSE 0
<1> USE DEF IsPage
<1>1. \A n \in 1 .. L : order[n] \in 1 .. L /\ h[order[n]] = h[n] /\ h[n] \in Nat
  <2>1. order \in [1 .. L -> 1 .. L]
    BY DEF Orderings
  <2>2. \A n \in 1 .. L : h[order[n]] = h[n]
    <3> L \in Nat /\ h \in [1 .. L -> Nat] /\ Sorted(h, L) /\ order \in Orderings(h, L)
      OBVIOUS
    <3> HIDE DEF IsPage
    <3> QED
      BY TimesAreInOrder
  <2> QED
    BY <2>1, <2>2
<1>2. /\ data \in Seq(1 .. L) /\ Len(data) = k
      /\ \A n \in 1 .. last - first + 1 : data[n] = order[first + n - 1]
  <2>1. \A n \in first .. last : order[n] \in 1 .. L
    BY <1>1
  <2> QED
    BY <2>1, SubSeqProperties
<1>3. /\ SubSeq(h, first, last) \in Seq(Nat) /\ Len(SubSeq(h, first, last)) = k
      /\ \A n \in 1 .. last - first + 1 : SubSeq(h, first, last)[n] = h[first + n - 1]
  <2>1. \A n \in first .. last : h[n] \in Nat
    BY <1>1
  <2> QED
    BY <2>1, SubSeqProperties
<1>4. k \in Nat /\ \A n \in 1 .. k : n \in 1 .. last - first + 1 /\ first + n - 1 \in 1 .. L
  OBVIOUS
<1>5. DOMAIN data = 1 .. k
  BY <1>2
<1> HIDE DEF k
<1> DEFINE shown == Shown(h, data)
<1>6. \A n \in 1 .. k : h[data[n]] = SubSeq(h, first, last)[n] /\ h[data[n]] \in Nat
  BY <1>1, <1>2, <1>3, <1>4
<1>7. shown \in [1 .. k -> Nat] /\ \A n \in 1 .. k : shown[n] = h[data[n]]
  BY <1>5, <1>6 DEF Shown
<1>8. shown \in Seq(Nat) /\ Len(shown) = k
  <2>1. k \in Nat
    BY <1>4
  <2> HIDE DEF shown
  <2> QED
    BY <1>7, <2>1, SeqDef
<1> HIDE DEF shown
<1>9. shown = SubSeq(h, first, last)
  BY <1>3, <1>6, <1>7, <1>8, SeqEqual
<1> QED
  BY <1>9 DEF shown

LEMMA TimesAreSorted ==
    ASSUME Inv, NEW i \in Tasks
    PROVE  /\ Sorted(TimesOf(history[i]), Len(history[i]))
           /\ Orders(i) = OrdersOf(history[i]) /\ history[i] \in Seq(Revision)
           /\ DOMAIN history[i] = 1 .. Len(history[i])
<1>1. HistoryIsOrdered(i) /\ TypeOK
  BY DEF Inv
<1>2. DOMAIN history[i] = 1 .. Len(history[i]) /\ history[i] \in Seq(Revision)
  BY <1>1, HistoryTyped
<1> QED
  BY <1>1, <1>2 DEF HistoryIsOrdered, Sorted, TimesOf, Orders, OrdersOf

(* The page with size rows after the first skipped ones                        *)
PageFits(h, data, skipped, size) ==
    Shown(h, data) = SubSeq(h, skipped + 1, Minimum(skipped + size, Len(h)))

LEMMA PageOfHistory ==
    ASSUME Inv, NEW i \in Tasks, NEW skipped \in Nat, NEW size \in Nat,
           NEW data \in ListHistory(i, size, skipped)
    PROVE  /\ [n \in DOMAIN history[i] |-> history[i][n].changed_at] = TimesOf(history[i])
           /\ PageFits(TimesOf(history[i]), data, skipped, size)
<1> DEFINE h == TimesOf(history[i])
           L == Len(history[i])
<1>1. PICK order \in Orders(i) :
         data = SubSeq(order, skipped + 1, Minimum(skipped + size, Len(order)))
  BY DEF ListHistory
<1>2. /\ Sorted(h, L) /\ order \in OrdersOf(history[i]) /\ history[i] \in Seq(Revision)
      /\ DOMAIN history[i] = 1 .. L
  BY <1>1, TimesAreSorted
<1>3. /\ order \in Orderings(h, L) /\ Len(order) = L /\ L \in Nat /\ h \in [1 .. L -> Nat]
  BY <1>2, OrdersAreOrderings
<1>4. [n \in DOMAIN history[i] |-> history[i][n].changed_at] = h
  BY <1>2 DEF TimesOf
<1>5. Sorted(h, L)
  BY <1>2
<1> HIDE DEF h, L
<1>6. Len(h) = L
  BY <1>3, SeqDef
<1> DEFINE first == skipped + 1
           last == Minimum(skipped + size, L)
<1>7. last \in Nat /\ last <= L /\ first \in Nat \ {0}
  BY <1>3 DEF Minimum
<1>8. data = SubSeq(order, first, last)
  BY <1>1, <1>3
<1> HIDE DEF first, last
<1>9. Shown(h, data) = SubSeq(h, first, last)
  <2>1. IsPage(L, h, order, first, last, data)
    BY <1>3, <1>5, <1>7, <1>8 DEF IsPage
  <2> QED
    BY <2>1, PageShows
<1> QED
  BY <1>4, <1>6, <1>9, Zenon DEF PageFits, first, last, h

(* Whatever order the database gives to revisions of one time, the pages of a  *)
(* history are consecutive pieces of it as far as times can tell, as long as   *)
(* the offset is an int.                                                       *)
THEOREM PagesFollowEachOther == Spec => []PagesCover
<1>1. Inv => PagesCover
  <2> SUFFICES ASSUME Inv, NEW i \in {i \in Tasks : Exists(i)}, NEW page \in 1 .. MaxInt,
                      NEW size \in 1 .. MaxSize + 1,
                      NEW answer \in History(tasks[i].by, i, page, size),
                      answer.status = 200 /\ (page - 1) * answer.page.size <= MaxInt
               PROVE  LET skipped == (page - 1) * answer.page.size
                          times == [n \in DOMAIN history[i] |-> history[i][n].changed_at]
                          shown == [n \in DOMAIN answer.data |-> times[answer.data[n]]]
                      IN  shown = SubSeq(times, skipped + 1,
                                         Minimum(skipped + answer.page.size, Len(times)))
    BY Zenon DEF PagesCover
  <2> DEFINE p == ParsePageRequest(page, size)
             times == [n \in DOMAIN history[i] |-> history[i][n].changed_at]
  <2>1. /\ MaxInt \in Nat /\ MaxSize \in Nat \ {0}
        /\ page \in Nat \ {0} /\ size \in Nat \ {0}
    BY BoundsAreNatural
  <2>2. p.page = page /\ p.size \in Nat \ {0}
    BY <2>1 DEF ParsePageRequest, Absent, Minimum
  <2>3. answer \in GetHistory(tasks[i].by, i, p)
    BY DEF History, Failure, Refusal
  <2> HIDE DEF p
  <2>4. PICK data \in ListHistory(i, p.size, Offset(p)) :
           answer = [status |-> 200, data |-> data, page |-> p]
    BY <2>3 DEF GetHistory, Refusal
  <2>5. answer.data = data /\ answer.page.size = p.size
    BY <2>4
  <2> DEFINE skipped == (page - 1) * p.size
  <2>6. skipped \in Nat
    BY <2>1, <2>2
  <2>7. Offset(p) = Wrap(skipped)
    BY <2>2 DEF Offset
  <2>8. skipped <= MaxInt
    BY <2>5
  <2> HIDE DEF skipped
  <2>9. Offset(p) = skipped
    BY <2>6, <2>7, <2>8, NoOverflow
  <2>10. data \in ListHistory(i, p.size, skipped)
    BY <2>4, <2>9, Zenon
  <2>11. i \in Tasks /\ p.size \in Nat
    BY <2>2
  <2> HIDE DEF times
  <2>12. times = TimesOf(history[i]) /\ PageFits(TimesOf(history[i]), data, skipped, p.size)
    BY <2>6, <2>10, <2>11, PageOfHistory DEF times
  <2>13. PageFits(times, answer.data, (page - 1) * answer.page.size, answer.page.size)
    BY <2>5, <2>12, Zenon DEF skipped
  <2> QED
    BY <2>13, Zenon DEF PageFits, Shown, times
<1> QED
  BY <1>1, InvHolds, PTL

-------------------------------------------------------------------------------
(* A full page is final. *)

PageOf(order, size, skipped) ==
    SubSeq(order, skipped + 1, Minimum(skipped + size, Len(order)))

IsFull(page, order, size, skipped) ==
    Len(page) = size /\ \A n \in 1 .. size : page[n] = order[skipped + n]

PagesIn(orders, size, skipped) == {PageOf(order, size, skipped) : order \in orders}

LEMMA PageRows ==
    ASSUME NEW S, NEW order \in Seq(S), NEW size \in Nat \ {0}, NEW skipped \in Nat
    PROVE  /\ PageOf(order, size, skipped) \in Seq(S)
           /\ skipped + size <= Len(order) =>
                 IsFull(PageOf(order, size, skipped), order, size, skipped)
           /\ Len(PageOf(order, size, skipped)) = size => skipped + size <= Len(order)
<1> DEFINE first == skipped + 1
           last == Minimum(skipped + size, Len(order))
           page == SubSeq(order, first, last)
<1>1. Len(order) \in Nat /\ \A n \in 1 .. Len(order) : order[n] \in S
  BY ElementOfSeq, LenProperties
<1>2. first \in Nat \ {0} /\ last \in Nat /\ last <= Len(order)
  BY <1>1 DEF Minimum
<1>3. /\ page \in Seq(S) /\ Len(page) = IF first <= last THEN last - first + 1 ELSE 0
      /\ \A n \in 1 .. last - first + 1 : page[n] = order[first + n - 1]
  <2>1. \A n \in first .. last : order[n] \in S
    BY <1>1, <1>2
  <2> HIDE DEF first, last
  <2> QED
    BY <1>2, <2>1, SubSeqProperties
<1> HIDE DEF page
<1>4. ASSUME skipped + size <= Len(order)
      PROVE  Len(page) = size /\ \A n \in 1 .. size : page[n] = order[skipped + n]
  <2>1. last = skipped + size
    BY <1>1, <1>4 DEF Minimum
  <2>2. \A n \in 1 .. size : n \in 1 .. last - first + 1 /\ first + n - 1 = skipped + n
    BY <2>1
  <2>3. Len(page) = size
    BY <1>3, <2>1
  <2> HIDE DEF first, last
  <2> QED
    BY <1>3, <2>2, <2>3
<1>5. Len(page) = size => skipped + size <= Len(order)
  BY <1>1, <1>2, <1>3
<1> QED
  BY <1>3, <1>4, <1>5 DEF PageOf, IsFull, page

LEMMA SamePage ==
    ASSUME NEW S, NEW a \in Seq(S), NEW b \in Seq(S), NEW size \in Nat \ {0}, NEW skipped \in Nat,
           skipped + size <= Len(a), skipped + size <= Len(b),
           \A p \in 1 .. skipped + size : a[p] = b[p]
    PROVE  PageOf(a, size, skipped) = PageOf(b, size, skipped)
<1> DEFINE page == PageOf(a, size, skipped)
           other == PageOf(b, size, skipped)
<1>1. /\ page \in Seq(S) /\ Len(page) = size
      /\ \A n \in 1 .. size : page[n] = a[skipped + n]
  <2>1. page \in Seq(S) /\ IsFull(page, a, size, skipped)
    BY PageRows
  <2> HIDE DEF page
  <2> QED
    BY <2>1 DEF IsFull
<1>2. /\ other \in Seq(S) /\ Len(other) = size
      /\ \A n \in 1 .. size : other[n] = b[skipped + n]
  <2>1. other \in Seq(S) /\ IsFull(other, b, size, skipped)
    BY PageRows
  <2> HIDE DEF other
  <2> QED
    BY <2>1 DEF IsFull
<1> HIDE DEF page, other
<1>3. \A n \in 1 .. size : page[n] = other[n]
  BY <1>1, <1>2
<1>4. page = other
  BY <1>1, <1>2, <1>3, SeqEqual
<1> QED
  BY <1>4 DEF page, other

(* The page that orders ties by id shows how many rows there are.              *)
LEMMA PageById ==
    ASSUME NEW L \in Nat, NEW h \in [1 .. L -> Nat], Sorted(h, L),
           NEW size \in Nat \ {0}, NEW skipped \in Nat
    PROVE  \E order \in Orderings(h, L) :
              LET page == PageOf(order, size, skipped)
              IN  Len(page) = size => skipped + size <= L /\ page[size] = skipped + size
<1> DEFINE order == [n \in 1 .. L |-> n]
           page == PageOf(order, size, skipped)
<1>1. order \in [1 .. L -> 1 .. L] /\ \A n \in 1 .. L : order[n] = n
  OBVIOUS
<1> HIDE DEF order
<1>2. order \in Orderings(h, L)
  BY <1>1, OrderByTimes
<1>3. order \in Seq(1 .. L) /\ Len(order) = L
  BY <1>1, SeqDef
<1>4. ASSUME Len(page) = size
      PROVE  skipped + size <= L /\ page[size] = skipped + size
  <2>1. skipped + size <= L
    BY <1>3, <1>4, PageRows
  <2>2. page[size] = order[skipped + size]
    <3>1. IsFull(page, order, size, skipped)
      BY <1>3, <2>1, PageRows
    <3> HIDE DEF page
    <3> QED
      BY <3>1 DEF IsFull
  <2> QED
    BY <1>1, <2>1, <2>2
<1> QED
  BY <1>2, <1>4

LEMMA FullPagesStay ==
    ASSUME NEW L, NEW h, NEW M, NEW g, NEW T \in Nat, Extends(h, L, g, M, T),
           NEW size \in Nat \ {0}, NEW skipped \in Nat,
           skipped + size <= L, h[skipped + size] < T
    PROVE  PagesIn(Orderings(g, M), size, skipped) = PagesIn(Orderings(h, L), size, skipped)
<1> DEFINE k == skipped + size
<1>1. /\ L \in Nat /\ M \in Nat /\ L <= M /\ k \in 1 .. L
      /\ h \in [1 .. L -> Nat] /\ Sorted(h, L)
  BY DEF Extends
<1>2. \A p \in 1 .. k : p \in 1 .. L /\ h[p] < T
  <2>1. \A p \in 1 .. k : p \in 1 .. L /\ h[p] <= h[k]
    BY <1>1 DEF Sorted
  <2>2. h[k] < T
    OBVIOUS
  <2> HIDE DEF k
  <2> QED
    BY <1>1, <2>1, <2>2
<1>3. \A order \in Orderings(h, L) : order \in Seq(1 .. M) /\ Len(order) = L
  <2>1. 1 .. L \subseteq 1 .. M
    BY <1>1
  <2>2. \A order \in Orderings(h, L) : order \in [1 .. L -> 1 .. M]
    BY <2>1 DEF Orderings
  <2> QED
    BY <1>1, <2>2, SeqDef
<1>4. \A order \in Orderings(g, M) : order \in Seq(1 .. M) /\ Len(order) = M
  <2>1. \A order \in Orderings(g, M) : order \in [1 .. M -> 1 .. M]
    BY DEF Orderings
  <2> QED
    BY <1>1, <2>1, SeqDef
<1>5. ASSUME NEW order \in Orderings(h, L), NEW longer \in Orderings(g, M),
             \A p \in 1 .. k : order[p] = longer[p]
      PROVE  PageOf(order, size, skipped) = PageOf(longer, size, skipped)
  <2>1. order \in Seq(1 .. M) /\ longer \in Seq(1 .. M)
    BY <1>3, <1>4
  <2>2. skipped + size <= Len(order) /\ skipped + size <= Len(longer)
    BY <1>1, <1>3, <1>4
  <2>3. \A p \in 1 .. skipped + size : order[p] = longer[p]
    BY <1>5
  <2> HIDE DEF k
  <2> QED
    BY <2>1, <2>2, <2>3, SamePage
<1>6. ASSUME NEW order \in Orderings(h, L)
      PROVE  \E longer \in Orderings(g, M) :
                PageOf(longer, size, skipped) = PageOf(order, size, skipped)
  BY <1>2, <1>5, OrdersGoOn
<1>7. ASSUME NEW longer \in Orderings(g, M)
      PROVE  \E order \in Orderings(h, L) :
                PageOf(longer, size, skipped) = PageOf(order, size, skipped)
  BY <1>2, <1>5, OrdersWereThere
<1> QED
  BY <1>6, <1>7 DEF PagesIn

LEMMA CommitExtends ==
    ASSUME Inv, NEW c \in Clients, Commit(c), NEW i \in Tasks, i = tx[c].task
    PROVE  /\ history'[i] \in Seq(Revision) /\ tx[c].row.updated_at \in Nat
           /\ \A n \in DOMAIN history[i] : history[i][n].changed_at <= tx[c].row.updated_at
           /\ Extends(TimesOf(history[i]), Len(history[i]),
                      TimesOf(history'[i]), Len(history'[i]), tx[c].row.updated_at)
<1> DEFINE s == history[i]
           r == tx[c].rows
           g == history'[i]
           L == Len(s)
           M == Len(g)
           T == tx[c].row.updated_at
<1>1. TypeOK /\ TypeOK' /\ Inv' /\ tx[c] # None /\ g = s \o r
  <2>1. TypeOK
    BY DEF Inv
  <2>2. Inv'
    BY CommitKeepsInv
  <2> QED
    BY <2>1, <2>2, CommitTyped DEF Inv
<1>2. s \in Seq(Revision) /\ r \in Seq(Revision) /\ T \in Nat
  BY <1>1, HistoryTyped, TransactionTyped, SecondsAreNatural DEF Task
<1>3. /\ \A n \in DOMAIN s : s[n].changed_at <= T
      /\ \A n \in DOMAIN r : T <= r[n].changed_at
  BY <1>1 DEF Inv, TransactionFits, RowsFollow, UpdateFollows
<1>4. Sorted(TimesOf(s), L)
  BY TimesAreSorted
<1>5. HistoryIsOrdered(i)'
  BY <1>1 DEF Inv
<1>6. DOMAIN g = 1 .. M /\ \A m, n \in DOMAIN g : m <= n => g[m].changed_at <= g[n].changed_at
  <2>1. \A m, n \in DOMAIN g : m <= n => g[m].changed_at <= g[n].changed_at
    BY <1>5 DEF HistoryIsOrdered
  <2>2. g \in Seq(Revision)
    BY <1>1, <1>2, Joined
  <2> HIDE DEF g
  <2> QED
    BY <2>1, <2>2, RowsTyped
<1> HIDE DEF s, r, g, T
<1>7. /\ g \in Seq(Revision) /\ L \in Nat /\ M = L + Len(r)
      /\ \A n \in 1 .. L : g[n] = s[n]
      /\ \A n \in 1 .. M : n <= L \/ (n - L \in 1 .. Len(r) /\ g[n] = r[n - L])
  BY <1>1, <1>2, Joined
<1>8. M \in Nat /\ L <= M
  BY <1>2, <1>7, LenProperties
<1>9. Sorted(TimesOf(g), M)
  BY <1>6 DEF Sorted, TimesOf
<1>10. TimesOf(s) \in [1 .. L -> Nat] /\ TimesOf(g) \in [1 .. M -> Nat]
  BY <1>2, <1>7, OrdersAreOrderings
<1>11. \A n \in 1 .. L : TimesOf(g)[n] = TimesOf(s)[n]
  BY <1>7, <1>8 DEF TimesOf
<1>12. ASSUME NEW n \in 1 .. M, L < n
       PROVE  T <= TimesOf(g)[n]
  <2>1. n - L \in 1 .. Len(r) /\ g[n] = r[n - L]
    BY <1>7, <1>8, <1>12
  <2>2. T <= r[n - L].changed_at
    BY <1>2, <1>3, <2>1, RowsTyped
  <2> QED
    BY <2>1, <2>2 DEF TimesOf
<1>13. Extends(TimesOf(s), L, TimesOf(g), M, T)
  BY <1>4, <1>7, <1>8, <1>9, <1>10, <1>11, <1>12 DEF Extends
<1> QED
  BY <1>2, <1>3, <1>7, <1>13 DEF s, g, T

(* A page read by its ids *)
LEMMA PagesRead ==
    ASSUME Inv, NEW i \in Tasks, NEW size, NEW skipped
    PROVE  ListHistory(i, size, skipped)
              = PagesIn(Orderings(TimesOf(history[i]), Len(history[i])), size, skipped)
<1>1. ListHistory(i, size, skipped) = PagesIn(OrdersOf(history[i]), size, skipped)
  BY DEF ListHistory, Orders, OrdersOf, PageOf, PagesIn
<1>2. history[i] \in Seq(Revision)
  BY TimesAreSorted
<1> QED
  BY <1>1, <1>2, OrdersAreOrderings

(* The page is full, and a revision of a later time follows.                   *)
Passed(i, size, ids) ==
    /\ Len(ids) = size
    /\ \E n \in DOMAIN history[i] :
          history[i][n].changed_at > history[i][ids[size]].changed_at

LEMMA CommitKeepsFullPages ==
    ASSUME Inv, NEW c \in Clients, Commit(c), NEW i \in Tasks, i = tx[c].task,
           NEW size \in Nat \ {0}, NEW skipped \in Nat,
           \A ids \in ListHistory(i, size, skipped) : Passed(i, size, ids)
    PROVE  ListHistory(i, size, skipped)' = ListHistory(i, size, skipped)
<1> DEFINE h == TimesOf(history[i])
           L == Len(history[i])
           g == TimesOf(history'[i])
           M == Len(history'[i])
           T == tx[c].row.updated_at
<1>1. /\ Extends(h, L, g, M, T) /\ T \in Nat /\ history'[i] \in Seq(Revision)
      /\ \A n \in DOMAIN history[i] : history[i][n].changed_at <= T
  BY CommitExtends
<1>2. ListHistory(i, size, skipped) = PagesIn(Orderings(h, L), size, skipped)
  BY PagesRead
<1>3. ListHistory(i, size, skipped)' = PagesIn(Orderings(g, M), size, skipped)
  <2>1. ListHistory(i, size, skipped)' = PagesIn(OrdersOf(history'[i]), size, skipped)
    BY DEF ListHistory, Orders, OrdersOf, PageOf, PagesIn
  <2> QED
    BY <1>1, <2>1, OrdersAreOrderings
<1>4. L \in Nat /\ h \in [1 .. L -> Nat] /\ Sorted(h, L)
  BY <1>1 DEF Extends
<1>5. DOMAIN history[i] = 1 .. L /\ \A n \in 1 .. L : h[n] = history[i][n].changed_at
  BY TimesAreSorted DEF TimesOf
<1> HIDE DEF h, L, g, M, T
<1>6. PICK order \in Orderings(h, L) :
         LET page == PageOf(order, size, skipped)
         IN  Len(page) = size => skipped + size <= L /\ page[size] = skipped + size
  BY <1>4, PageById
<1> DEFINE page == PageOf(order, size, skipped)
<1>7. page \in ListHistory(i, size, skipped)
  BY <1>2 DEF PagesIn
<1>8. Passed(i, size, page)
  BY <1>7
<1>9. skipped + size <= L /\ page[size] = skipped + size
  BY <1>6, <1>8 DEF Passed
<1> HIDE DEF page
<1>10. h[skipped + size] < T
  <2>1. skipped + size \in 1 .. L
    BY <1>4, <1>9
  <2>2. PICK n \in 1 .. L : history[i][n].changed_at > history[i][skipped + size].changed_at
    BY <1>5, <1>8, <1>9 DEF Passed
  <2>3. h[n] > h[skipped + size] /\ h[n] <= T /\ h[n] \in Nat /\ h[skipped + size] \in Nat
    BY <1>1, <1>4, <1>5, <2>1, <2>2
  <2> QED
    BY <1>1, <2>3
<1>11. PagesIn(Orderings(g, M), size, skipped) = PagesIn(Orderings(h, L), size, skipped)
  <2>1. Extends(h, L, g, M, T) /\ T \in Nat /\ skipped + size <= L
    BY <1>1, <1>9
  <2> QED
    BY <1>10, <2>1, FullPagesStay
<1> QED
  BY <1>2, <1>3, <1>11

(* A full page that a revision of a later second follows never changes again,  *)
(* however the database breaks ties when it is read once more, and whatever is  *)
(* stamped before it was read and committed after.                             *)
THEOREM FullPagesStayTheSame == Spec => FullPagesAreFinal
<1> DEFINE A == \A i \in {i \in Tasks : history'[i] # history[i]},
                   page \in 1 .. MaxRows, size \in 1 .. MaxSize :
                   LET shown == ListHistory(i, size, (page - 1) * size)
                       IsPassed(ids) ==
                          /\ Len(ids) = size
                          /\ \E n \in DOMAIN history[i] :
                                history[i][n].changed_at > history[i][ids[size]].changed_at
                   IN  (\A ids \in shown : IsPassed(ids))
                         => ListHistory(i, size, (page - 1) * size)' = shown
<1>1. Inv /\ [Next]_vars => A
  <2> SUFFICES ASSUME Inv, [Next]_vars, NEW i \in {i \in Tasks : history'[i] # history[i]},
                      NEW page \in 1 .. MaxRows, NEW size \in 1 .. MaxSize,
                      \A ids \in ListHistory(i, size, (page - 1) * size) : Passed(i, size, ids)
               PROVE  ListHistory(i, size, (page - 1) * size)' = ListHistory(i, size, (page - 1) * size)
    BY Zenon DEF A, Passed
  <2> DEFINE skipped == (page - 1) * size
  <2>1. size \in Nat \ {0} /\ skipped \in Nat
    <3>1. size \in Nat \ {0} /\ page - 1 \in Nat
      BY BoundsAreNatural
    <3> DEFINE k == page - 1
    <3>2. k \in Nat
      BY <3>1
    <3> HIDE DEF k
    <3>3. k * size \in Nat
      BY <3>1, <3>2
    <3> QED
      BY <3>1, <3>3 DEF k
  <2>2. \A ids \in ListHistory(i, size, skipped) : Passed(i, size, ids)
    OBVIOUS
  <2> HIDE DEF skipped
  <2>3. history' # history /\ i \in Tasks
    OBVIOUS
  <2>4. PICK c \in Clients : Commit(c)
    <3>1. ASSUME NEW c \in Clients, NEW x \in Tasks, NEW cr \in Creations, InsertTask(c, x, cr)
          PROVE  history' = history
      BY <3>1 DEF InsertTask, Open
    <3>2. ASSUME NEW c \in Clients, NEW x \in Tasks, NEW e \in Edits, UpdateRow(c, x, e)
          PROVE  history' = history
      BY <3>2 DEF UpdateRow, Open
    <3>3. ASSUME NEW c \in Clients, InsertRevision(c) \/ Rollback(c)
          PROVE  history' = history
      BY <3>3 DEF InsertRevision, Rollback
    <3>4. CASE \/ \E t \in Teams, u \in Users : MembershipGrows(t, u)
               \/ Tick
               \/ UNCHANGED vars
      BY <3>4 DEF MembershipGrows, Tick, vars
    <3> QED
      BY <2>3, <3>1, <3>2, <3>3, <3>4 DEF Next
  <2>5. i = tx[c].task
    BY <2>3, <2>4, CommitTyped DEF Inv
  <2>6. ListHistory(i, size, skipped)' = ListHistory(i, size, skipped)
    BY <2>1, <2>2, <2>3, <2>4, <2>5, CommitKeepsFullPages
  <2> QED
    BY <2>6 DEF skipped
<1> QED
  BY <1>1, InvHolds, PTL DEF Spec, FullPagesAreFinal
===============================================================================
