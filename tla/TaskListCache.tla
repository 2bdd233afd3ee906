----------------------------- MODULE TaskListCache -----------------------------
(* The cache-aside decorator over TaskRepository.List and the version counter  *)
(* that invalidates it (internal/repository/task_cache.go), one Redis or MySQL *)
(* call per step.  What a team's list shows is abstracted to how many changes  *)
(* of the team's tasks it has seen: db[t] counts the commits, and COUNT and    *)
(* SELECT, two statements of no transaction, each read the count of their own  *)
(* moment.                                                                     *)
EXTENDS Naturals

CONSTANTS
    Teams,
    Filters,    \* status, assignee, offset and limit together
    Requests,   \* the requests of a behaviour, each handled once
    NoJob,      \* what a request that has not arrived asks for
    NoKey,      \* listCacheKey's empty key
    NoPage,     \* what a list that has not been answered returned
    Faults      \* what may go wrong, see AllFaults

(* redis: a command fails; db: a statement fails, or its confirmation is lost; *)
(* client: a client goes away and its context is cancelled; process: a crash;  *)
(* memory: Redis forgets a counter.                                            *)
AllFaults == {"redis", "db", "client", "process", "memory"}

ASSUME FaultsAreKnown == Faults \subseteq AllFaults
ASSUME NoKeyIsNoVersion == NoKey \notin Nat

VARIABLES
    db,         \* db[t]: changes committed to the tasks of t
    ver,        \* ver[t]: the counter, 0 while Redis has no such key
    cache,      \* the cached lists
    pc,         \* pc[r]: the call request r makes next
    job,        \* job[r]: what it asks for
    key,        \* key[r]: the version a list has put into its cache key
    total,      \* total[r]: what its COUNT saw
    rows,       \* rows[r]: what its SELECT saw
    answer,     \* answer[r]: HTTP status, 0 before there is one
    page,       \* page[r]: the list that was returned
    (* History variables; no step reads them to decide anything. *)
    hi,         \* hi[t]: the last change whose bump of the counter took effect
    since,      \* since[r]: hi of its team when r arrived; for a change, its number
    lost,       \* lost[t]: a change of t was committed and never bumped
    fell        \* fell[t]: the counter of t went back

redis == <<ver, cache>>
control == <<pc, job, key, total, rows, answer, page>>
ghosts == <<hi, since, lost, fell>>
vars == <<db, ver, cache, pc, job, key, total, rows, answer, page, hi, since, lost, fell>>

ListJobs == [op : {"list"}, team : Teams, filter : Filters]
WriteJobs == [op : {"write"}, team : Teams]
Jobs == ListJobs \union WriteJobs

ASSUME RequestsAreNoJobs == NoJob \notin Jobs

Entries == [team : Teams, ver : Nat, of : Filters, filter : Filters, total : Nat, rows : Nat]
Pages == [filter : Filters, total : Nat, rows : Nat]
ASSUME NoPageIsNoPage == NoPage \notin Pages

PcValues == {"idle", "version", "lookup", "count", "select", "store", "write", "bump", "done"}

Reading == {"version", "lookup", "count", "select", "store"}

TypeOK ==
    /\ db \in [Teams -> Nat]
    /\ ver \in [Teams -> Nat]
    /\ cache \subseteq Entries
    /\ pc \in [Requests -> PcValues]
    /\ job \in [Requests -> Jobs \union {NoJob}]
    /\ key \in [Requests -> Nat \union {NoKey}]
    /\ total \in [Requests -> Nat]
    /\ rows \in [Requests -> Nat]
    /\ answer \in [Requests -> {0, 200, 500}]
    /\ page \in [Requests -> Pages \union {NoPage}]
    /\ hi \in [Teams -> Nat]
    /\ since \in [Requests -> Nat]
    /\ lost \in [Teams -> BOOLEAN]
    /\ fell \in [Teams -> BOOLEAN]
    /\ \A r \in Requests :
          /\ pc[r] = "idle" <=> job[r] = NoJob
          /\ pc[r] \in Reading => job[r] \in ListJobs
          /\ pc[r] \in {"write", "bump"} => job[r] \in WriteJobs
          /\ pc[r] \in {"lookup", "store"} => key[r] # NoKey
          /\ page[r] # NoPage => pc[r] = "done" /\ job[r] \in ListJobs

Init ==
    /\ db = [t \in Teams |-> 0]
    /\ ver = [t \in Teams |-> 0]
    /\ cache = {}
    /\ pc = [r \in Requests |-> "idle"]
    /\ job = [r \in Requests |-> NoJob]
    /\ key = [r \in Requests |-> NoKey]
    /\ total = [r \in Requests |-> 0]
    /\ rows = [r \in Requests |-> 0]
    /\ answer = [r \in Requests |-> 0]
    /\ page = [r \in Requests |-> NoPage]
    /\ hi = [t \in Teams |-> 0]
    /\ since = [r \in Requests |-> 0]
    /\ lost = [t \in Teams |-> FALSE]
    /\ fell = [t \in Teams |-> FALSE]

-------------------------------------------------------------------------------

Team(r) == job[r].team

Goto(r, where) ==
    /\ pc' = [pc EXCEPT ![r] = where]
    /\ UNCHANGED <<answer, page>>

Answer(r, code) ==
    /\ pc' = [pc EXCEPT ![r] = "done"]
    /\ answer' = [answer EXCEPT ![r] = code]

Return(r, filter, count, list) ==
    /\ Answer(r, 200)
    /\ page' = [page EXCEPT ![r] = [filter |-> filter, total |-> count, rows |-> list]]

(* A Redis command may return an error: Redis is away, or the command is given *)
(* the context of a request whose client has gone.                             *)
RedisMayFail == Faults \intersect {"redis", "client"} # {}

(* A list that passed the role check, or a change, reaches the cache.          *)
Start(r, j) ==
    /\ pc[r] = "idle"
    /\ job' = [job EXCEPT ![r] = j]
    /\ since' = [since EXCEPT ![r] = hi[j.team]]
    /\ Goto(r, IF j.op = "list" THEN "version" ELSE "write")
    /\ UNCHANGED <<db, redis, key, total, rows, hi, lost, fell>>

-------------------------------------------------------------------------------
(* List *)

(* The cache key of team t and filter f under version v, without its prefix.   *)
CacheKeyLoose(t, v, f) == <<t, v>>

CacheKey(t, v, f) == <<t, v, f>>

KeyOf(e) == CacheKey(e.team, e.ver, e.of)

OwnKey(r) == CacheKey(Team(r), key[r], job[r].filter)

(* listCacheKey, 107-116: the version now, or no key when Redis fails *)
GetVersion(r) ==
    /\ pc[r] = "version"
    /\ \/ key' = [key EXCEPT ![r] = ver[Team(r)]] /\ Goto(r, "lookup")
       \/ RedisMayFail /\ key' = [key EXCEPT ![r] = NoKey] /\ Goto(r, "count")
    /\ UNCHANGED <<db, redis, job, total, rows, ghosts>>

(* getCachedList: a hit is the answer; a failing GET is a miss. *)
LookUp(r) ==
    /\ pc[r] = "lookup"
    /\ \/ \E e \in cache : KeyOf(e) = OwnKey(r) /\ Return(r, e.filter, e.total, e.rows)
       \/ /\ RedisMayFail \/ \A e \in cache : KeyOf(e) # OwnKey(r)
          /\ Goto(r, "count")
    /\ UNCHANGED <<db, redis, job, key, total, rows, ghosts>>

(* TaskRepository.List, 81-85 *)
CountTasks(r) ==
    /\ pc[r] = "count"
    /\ total' = [total EXCEPT ![r] = db[Team(r)]]
    /\ Goto(r, "select")
    /\ UNCHANGED <<db, redis, job, key, rows, ghosts>>

(* List, 86: `if key != ""` *)
HasKeyLoose(r) == TRUE

HasKey(r) == key[r] # NoKey

(* TaskRepository.List, 87-100; with no key the list goes back uncached. *)
SelectTasks(r) ==
    /\ pc[r] = "select"
    /\ rows' = [rows EXCEPT ![r] = db[Team(r)]]
    /\ IF HasKey(r) THEN Goto(r, "store")
                    ELSE Return(r, job[r].filter, total[r], db[Team(r)])
    /\ UNCHANGED <<db, redis, job, key, total, ghosts>>

(* The version under which a list is stored: the one read before the lists. *)
StoreVersionLoose(r) == ver[Team(r)]

StoreVersion(r) == key[r]

(* setCachedList, best effort: SET replaces what the key held. *)
Store(r) ==
    LET new == [team |-> Team(r), ver |-> StoreVersion(r), of |-> job[r].filter,
                filter |-> job[r].filter, total |-> total[r], rows |-> rows[r]]
    IN  /\ pc[r] = "store"
        /\ \/ cache' = {e \in cache : KeyOf(e) # KeyOf(new)} \union {new}
           \/ RedisMayFail /\ UNCHANGED cache
        /\ Return(r, job[r].filter, total[r], rows[r])
        /\ UNCHANGED <<db, ver, job, key, total, rows, ghosts>>

-------------------------------------------------------------------------------
(* Create and UpdateWithHistory *)

(* next.Create or next.UpdateWithHistory succeeds; an update whose diff turned *)
(* out empty under the lock succeeds too, without a change.                    *)
Commit(r) ==
    /\ pc[r] = "write"
    /\ \E n \in {0, 1} :
          /\ db' = [db EXCEPT ![Team(r)] = @ + n]
          /\ since' = [since EXCEPT ![r] = db[Team(r)] + n]
    /\ Goto(r, "bump")
    /\ UNCHANGED <<redis, job, key, total, rows, hi, lost, fell>>

(* The change is committed and the delegate returns an error all the same: the *)
(* confirmation was lost, or GetByID failed after the INSERT of Create.  The   *)
(* decorator returns before bumpVersion (56-59, 94-97).                        *)
CommitUnconfirmed(r) ==
    /\ pc[r] = "write"
    /\ Faults \intersect {"db", "client", "process"} # {}
    /\ db' = [db EXCEPT ![Team(r)] = @ + 1]
    /\ lost' = [lost EXCEPT ![Team(r)] = TRUE]
    /\ Answer(r, 500)
    /\ UNCHANGED <<redis, job, key, total, rows, page, hi, since, fell>>

(* bumpVersion: INCR.  go-redis sends a command again whose reply was lost, so *)
(* one bump may add two.                                                       *)
BumpLoose(t, n) == UNCHANGED ver

Bump(t, n) == ver' = [ver EXCEPT ![t] = @ + n]

BumpVersion(r) ==
    /\ pc[r] = "bump"
    /\ \E n \in IF "redis" \in Faults THEN {1, 2} ELSE {1} : Bump(Team(r), n)
    /\ hi' = [hi EXCEPT ![Team(r)] = IF since[r] > @ THEN since[r] ELSE @]
    /\ Answer(r, 200)
    /\ UNCHANGED <<db, cache, job, key, total, rows, page, since, lost, fell>>

(* bumpVersion, 136-138: INCR returns an error, having been applied or not; a  *)
(* warning is logged and the answer is 200.                                    *)
BumpFails(r) ==
    /\ pc[r] = "bump"
    /\ RedisMayFail
    /\ \E n \in {0, 1} : Bump(Team(r), n)
    /\ lost' = [lost EXCEPT ![Team(r)] = TRUE]
    /\ Answer(r, 200)
    /\ UNCHANGED <<db, cache, job, key, total, rows, page, hi, since, fell>>

-------------------------------------------------------------------------------

(* A statement fails and the client is told 500, or the request just ends.     *)
Fail(r) ==
    /\ pc[r] \notin {"idle", "done"}
    /\ \/ pc[r] \in {"count", "select", "write"} /\ Faults \intersect {"db", "client"} # {}
       \/ "process" \in Faults
    /\ lost' = [t \in Teams |-> lost[t] \/ (pc[r] = "bump" /\ t = Team(r))]
    /\ Answer(r, 500)
    /\ UNCHANGED <<db, redis, job, key, total, rows, page, hi, since, fell>>

(* TaskListCacheTTL *)
HasTTLLoose(e) == FALSE

HasTTL(e) == TRUE

Expire(e) ==
    /\ HasTTL(e)
    /\ cache' = cache \ {e}
    /\ UNCHANGED <<db, ver, control, ghosts>>

Work(r) ==
    \/ GetVersion(r)
    \/ LookUp(r)
    \/ CountTasks(r)
    \/ SelectTasks(r)
    \/ Store(r)
    \/ Commit(r)
    \/ CommitUnconfirmed(r)
    \/ BumpVersion(r)
    \/ BumpFails(r)
    \/ Fail(r)

(* Redis evicts the counter, or restarts with an older one, and keeps entries; *)
(* those it does not keep Expire takes.                                        *)
Forget(t) ==
    /\ "memory" \in Faults
    /\ \E v \in 0 .. ver[t] : v < ver[t] /\ ver' = [ver EXCEPT ![t] = v]
    /\ fell' = [fell EXCEPT ![t] = TRUE]
    /\ UNCHANGED <<db, cache, control, hi, since, lost>>

ExpireSome == \E e \in cache : Expire(e)

Next ==
    \/ \E r \in Requests : Work(r) \/ \E j \in Jobs : Start(r, j)
    \/ ExpireSome
    \/ \E t \in Teams : Forget(t)

(* A request that has begun goes on, and every entry expires five minutes      *)
(* after it was stored.                                                        *)
Fairness ==
    /\ \A r \in Requests : WF_vars(Work(r))
    /\ WF_vars(ExpireSome)

Spec == Init /\ [][Next]_vars

FairSpec == Spec /\ Fairness

-------------------------------------------------------------------------------
(* Properties *)

(* The key design works: an entry that a reader can still reach holds every    *)
(* change whose bump took effect, however slow the reader that stored it was,  *)
(* and nothing waits under a version the counter has yet to reach, as long as  *)
(* Redis forgets no counter.                                                   *)
EntriesAreFresh ==
    \A e \in cache :
        /\ ~fell[e.team] =>
              /\ e.ver <= ver[e.team]
              /\ e.ver = ver[e.team] => hi[e.team] <= e.total
        /\ e.total <= e.rows /\ e.rows <= db[e.team]

(* A list shows the page that was asked for, with every change whose bump took *)
(* effect before the list was asked for: above all, whoever got 200 for a      *)
(* change that was bumped sees it in the next list ("must reflect the new      *)
(* task, not a stale cached count", task_cache_test.go:92).                    *)
AnswersAreFresh ==
    \A r \in Requests : page[r] # NoPage =>
        /\ page[r].filter = job[r].filter
        /\ ~fell[Team(r)] => since[r] <= page[r].total
        /\ page[r].total <= page[r].rows /\ page[r].rows <= db[Team(r)]

NoWriteInFlight(t) == \A r \in Requests : job[r] \in WriteJobs => Team(r) # t \/ pc[r] # "bump"

Reachable(t) == {e \in cache : e.team = t /\ e.ver = ver[t]}

(* When no change of a team is on its way from commit to bump, none was lost   *)
(* on that way and no counter was forgotten, all that can be read from the     *)
(* cache is what MySQL holds; in particular no page whose COUNT and SELECT saw *)
(* different states.                                                           *)
FreshUnlessBumpLost ==
    \A t \in Teams : NoWriteInFlight(t) /\ ~lost[t] /\ ~fell[t] =>
        \A e \in Reachable(t) : e.total = db[t] /\ e.rows = db[t]

(* COVER_LETTER.md:28: on a change of a task the counter is incremented, and   *)
(* stale entries of the previous version become unreachable.                   *)
ChangesAreBumped ==
    \A t \in Teams : NoWriteInFlight(t) =>
        \A e \in Reachable(t) : e.total = db[t] /\ e.rows = db[t]

(* What a lost bump or a forgotten counter brings in reach goes away: "stale   *)
(* entries will still expire via TTL" (task_cache.go:137).                     *)
StaleEntriesGo ==
    \A t \in Teams :
        (\E e \in Reachable(t) : e.total < db[t]) ~> (\A e \in Reachable(t) : e.total = db[t])

===============================================================================
