-------------------------- MODULE TaskListCacheProofs --------------------------
(* That a list shows every change whose bump took effect before it was asked   *)
(* for, for any number of teams, filters and requests and any of the faults.   *)
EXTENDS TaskListCache, TLAPS

LEMMA InitTyped == Init => TypeOK
BY NoKeyIsNoVersion DEF Init, TypeOK, Reading, PcValues

LEMMA StepTyped == TypeOK /\ [Next]_vars => TypeOK'
<1> SUFFICES ASSUME TypeOK, [Next]_vars PROVE TypeOK'
  OBVIOUS
<1> USE DEF TypeOK
<1>1. ASSUME NEW r \in Requests, NEW j \in Jobs, Start(r, j) PROVE TypeOK'
  BY <1>1, RequestsAreNoJobs DEF Start, Goto, Jobs, ListJobs, WriteJobs, PcValues, Reading, redis
<1>2. ASSUME NEW r \in Requests, GetVersion(r) PROVE TypeOK'
  BY <1>2, NoKeyIsNoVersion DEF GetVersion, Goto, PcValues, Reading, redis, ghosts, Team, ListJobs
<1>3. ASSUME NEW r \in Requests, LookUp(r) PROVE TypeOK'
  BY <1>3 DEF LookUp, Goto, Return, Answer, PcValues, Reading, redis, ghosts, Entries, Pages
<1>4. ASSUME NEW r \in Requests, CountTasks(r) PROVE TypeOK'
  BY <1>4 DEF CountTasks, Goto, PcValues, Reading, redis, ghosts, Team, ListJobs
<1>5. ASSUME NEW r \in Requests, SelectTasks(r) PROVE TypeOK'
  BY <1>5, SMTT(30) DEF SelectTasks, Goto, Return, Answer, PcValues, Reading, redis, ghosts, Team, ListJobs,
              Pages, HasKey
<1>6. ASSUME NEW r \in Requests, Store(r) PROVE TypeOK'
  BY <1>6 DEF Store, StoreVersion, Return, Answer, PcValues, Reading, ghosts, Team, ListJobs,
              Pages, Entries
<1>7. ASSUME NEW r \in Requests, Commit(r) PROVE TypeOK'
  BY <1>7 DEF Commit, Goto, PcValues, Reading, redis, Team, WriteJobs
<1>8. ASSUME NEW r \in Requests, CommitUnconfirmed(r) PROVE TypeOK'
  BY <1>8 DEF CommitUnconfirmed, Answer, PcValues, Reading, redis, Team, WriteJobs
<1>9. ASSUME NEW r \in Requests, BumpVersion(r) PROVE TypeOK'
  BY <1>9 DEF BumpVersion, Bump, Answer, PcValues, Reading, Team, WriteJobs
<1>10. ASSUME NEW r \in Requests, BumpFails(r) PROVE TypeOK'
  BY <1>10 DEF BumpFails, Bump, Answer, PcValues, Reading, Team, WriteJobs
<1>11. ASSUME NEW r \in Requests, Fail(r) PROVE TypeOK'
  BY <1>11 DEF Fail, Answer, PcValues, Reading, redis
<1>12. ASSUME NEW e \in cache, Expire(e) PROVE TypeOK'
  BY <1>12 DEF Expire, control, ghosts
<1>13. ASSUME NEW t \in Teams, Forget(t) PROVE TypeOK'
  BY <1>13 DEF Forget, control
<1>14. CASE UNCHANGED vars
  BY <1>14 DEF vars
<1> QED
  BY <1>1, <1>2, <1>3, <1>4, <1>5, <1>6, <1>7, <1>8, <1>9, <1>10, <1>11, <1>12, <1>13, <1>14
  DEF Next, Work, ExpireSome

(* Every variable keeps its type, and a request only takes the steps of its    *)
(* own operation.                                                              *)
THEOREM Typing == Spec => []TypeOK
BY InitTyped, StepTyped, PTL DEF Spec


--------------------------------------------------------------------------------
(* The inductive invariant.  EntriesAreFresh alone is not inductive: a slow    *)
(* list stores later what it counted earlier, and looks up later the key it    *)
(* made earlier, so both have to be related to the counter while it works.     *)

HoldsKey(r) ==
    /\ job[r] \in ListJobs
    /\ pc[r] \in {"lookup", "count", "select", "store"}
    /\ key[r] # NoKey

Counted(r) == job[r] \in ListJobs /\ pc[r] \in {"select", "store"}

ChangesAreNumbered ==
    /\ \A t \in Teams : hi[t] <= db[t]
    /\ \A r \in Requests :
          /\ job[r] \in WriteJobs => since[r] <= db[job[r].team]
          /\ job[r] \in ListJobs => since[r] <= hi[job[r].team]

KeysAreOld == \A r \in Requests : HoldsKey(r) /\ ~fell[job[r].team] => key[r] <= ver[job[r].team]

CountsAreFresh ==
    \A r \in Requests : Counted(r) =>
        /\ since[r] <= total[r] /\ total[r] <= db[job[r].team]
        /\ ~fell[job[r].team] /\ key[r] = ver[job[r].team] => hi[job[r].team] <= total[r]
        /\ pc[r] = "store" => total[r] <= rows[r] /\ rows[r] <= db[job[r].team]

(* Lists that hold the same key may serve each other through the cache. *)
SharersAgree ==
    \A r, s \in Requests :
        HoldsKey(r) /\ Counted(s) /\ job[r].team = job[s].team /\ key[r] = key[s]
                    /\ ~fell[job[r].team] =>
            since[r] <= total[s]

EntriesServe ==
    \A e \in cache :
        /\ e.of = e.filter
        /\ \A r \in Requests :
              HoldsKey(r) /\ ~fell[e.team] /\ job[r].team = e.team /\ key[r] = e.ver => since[r] <= e.total

LastChangeAccounted ==
    \A t \in Teams :
        \/ lost[t]
        \/ hi[t] = db[t]
        \/ \E r \in Requests :
              job[r] \in WriteJobs /\ job[r].team = t /\ pc[r] = "bump" /\ since[r] = db[t]

Inv ==
    /\ ChangesAreNumbered
    /\ KeysAreOld
    /\ CountsAreFresh
    /\ SharersAgree
    /\ EntriesServe
    /\ EntriesAreFresh
    /\ AnswersAreFresh
    /\ LastChangeAccounted


LEMMA InitInv == Init => Inv
<1> SUFFICES ASSUME Init PROVE Inv
  OBVIOUS
<1>1. ChangesAreNumbered /\ LastChangeAccounted
  BY DEF Init, ChangesAreNumbered, LastChangeAccounted, ListJobs, WriteJobs
<1>2. KeysAreOld /\ CountsAreFresh /\ SharersAgree
  BY DEF Init, KeysAreOld, CountsAreFresh, SharersAgree, HoldsKey, Counted
<1>3. EntriesServe /\ EntriesAreFresh /\ AnswersAreFresh
  BY DEF Init, EntriesServe, EntriesAreFresh, AnswersAreFresh
<1> QED
  BY <1>1, <1>2, <1>3 DEF Inv

LEMMA StepInv == TypeOK /\ Inv /\ [Next]_vars => Inv'
<1> SUFFICES ASSUME TypeOK, Inv, [Next]_vars PROVE Inv'
  OBVIOUS
<1> USE DEF TypeOK, PcValues, Reading, Inv, HoldsKey, Counted, Team, ListJobs, WriteJobs
<1>1. ASSUME NEW r \in Requests, NEW j \in Jobs, Start(r, j) PROVE Inv'
  <2> USE <1>1 DEF Start, Goto, redis, Jobs
  <2>1. ChangesAreNumbered'
    BY DEF ChangesAreNumbered
  <2>2. KeysAreOld'
    BY DEF KeysAreOld
  <2>3. CountsAreFresh'
    BY DEF CountsAreFresh
  <2>4. SharersAgree'
    BY DEF SharersAgree
  <2>5. EntriesServe'
    BY DEF EntriesServe
  <2>6. EntriesAreFresh'
    BY DEF EntriesAreFresh
  <2>7. AnswersAreFresh'
    BY DEF AnswersAreFresh
  <2>8. LastChangeAccounted'
    BY DEF LastChangeAccounted
  <2> QED
    BY <2>1, <2>2, <2>3, <2>4, <2>5, <2>6, <2>7, <2>8
<1>2. ASSUME NEW r \in Requests, GetVersion(r) PROVE Inv'
  <2> USE <1>2 DEF GetVersion, Goto, redis, ghosts
  <2>1. ChangesAreNumbered'
    BY DEF ChangesAreNumbered
  <2>2. KeysAreOld'
    BY DEF KeysAreOld
  <2>3. CountsAreFresh'
    BY DEF CountsAreFresh
  <2>4. SharersAgree'
    BY DEF SharersAgree, CountsAreFresh, ChangesAreNumbered
  <2>5. EntriesServe'
    <3> SUFFICES ASSUME NEW e \in cache, NEW s \in Requests,
                        HoldsKey(s)', ~fell[e.team], job'[s].team = e.team, key'[s] = e.ver
                 PROVE  since[s] <= e.total
      BY DEF EntriesServe
    <3>1. CASE s # r
      BY <3>1 DEF EntriesServe
    <3>2. CASE s = r
      <4>1. e.ver = ver[e.team] /\ since[r] <= hi[e.team]
        BY <3>2 DEF ChangesAreNumbered
      <4>2. hi[e.team] <= e.total
        BY <4>1 DEF EntriesAreFresh
      <4> QED
        BY <3>2, <4>1, <4>2 DEF Entries
    <3> QED
      BY <3>1, <3>2
  <2>6. EntriesAreFresh'
    BY DEF EntriesAreFresh
  <2>7. AnswersAreFresh'
    BY DEF AnswersAreFresh
  <2>8. LastChangeAccounted'
    BY DEF LastChangeAccounted
  <2> QED
    BY <2>1, <2>2, <2>3, <2>4, <2>5, <2>6, <2>7, <2>8
<1>3. ASSUME NEW r \in Requests, LookUp(r) PROVE Inv'
  <2> USE <1>3 DEF LookUp, Goto, Return, Answer, redis, ghosts, KeyOf, OwnKey, CacheKey,
    Entries
  <2>1. ChangesAreNumbered'
    BY DEF ChangesAreNumbered
  <2>2. KeysAreOld'
    BY DEF KeysAreOld
  <2>3. CountsAreFresh'
    BY DEF CountsAreFresh
  <2>4. SharersAgree'
    BY DEF SharersAgree
  <2>5. EntriesServe'
    BY DEF EntriesServe
  <2>6. EntriesAreFresh'
    BY DEF EntriesAreFresh
  <2>7. AnswersAreFresh'
    BY DEF AnswersAreFresh, EntriesServe, EntriesAreFresh, Pages
  <2>8. LastChangeAccounted'
    BY DEF LastChangeAccounted
  <2> QED
    BY <2>1, <2>2, <2>3, <2>4, <2>5, <2>6, <2>7, <2>8
<1>4. ASSUME NEW r \in Requests, CountTasks(r) PROVE Inv'
  <2> USE <1>4 DEF CountTasks, Goto, redis, ghosts
  <2>1. ChangesAreNumbered'
    BY DEF ChangesAreNumbered
  <2>2. KeysAreOld'
    BY DEF KeysAreOld
  <2>3. CountsAreFresh'
    BY DEF CountsAreFresh, ChangesAreNumbered
  <2>4. SharersAgree'
    BY DEF SharersAgree, ChangesAreNumbered
  <2>5. EntriesServe'
    BY DEF EntriesServe
  <2>6. EntriesAreFresh'
    BY DEF EntriesAreFresh
  <2>7. AnswersAreFresh'
    BY DEF AnswersAreFresh
  <2>8. LastChangeAccounted'
    BY DEF LastChangeAccounted
  <2> QED
    BY <2>1, <2>2, <2>3, <2>4, <2>5, <2>6, <2>7, <2>8
<1>5. ASSUME NEW r \in Requests, SelectTasks(r) PROVE Inv'
  <2> USE <1>5 DEF SelectTasks, HasKey, Goto, Return, Answer, redis, ghosts
  <2>1. ChangesAreNumbered'
    BY DEF ChangesAreNumbered
  <2>2. KeysAreOld'
    BY DEF KeysAreOld
  <2>3. CountsAreFresh'
    BY DEF CountsAreFresh
  <2>4. SharersAgree'
    BY DEF SharersAgree
  <2>5. EntriesServe'
    BY DEF EntriesServe
  <2>6. EntriesAreFresh'
    BY DEF EntriesAreFresh
  <2>7. AnswersAreFresh'
    BY DEF AnswersAreFresh, CountsAreFresh, Pages
  <2>8. LastChangeAccounted'
    BY DEF LastChangeAccounted
  <2> QED
    BY <2>1, <2>2, <2>3, <2>4, <2>5, <2>6, <2>7, <2>8
<1>6. ASSUME NEW r \in Requests, Store(r) PROVE Inv'
  <2> USE <1>6 DEF Store, StoreVersion, Return, Answer, ghosts, Entries
  <2>1. ChangesAreNumbered'
    BY DEF ChangesAreNumbered
  <2>2. KeysAreOld'
    BY DEF KeysAreOld
  <2>3. CountsAreFresh'
    BY DEF CountsAreFresh
  <2>4. SharersAgree'
    BY DEF SharersAgree
  <2>5. EntriesServe'
    BY DEF EntriesServe, SharersAgree, CountsAreFresh
  <2>6. EntriesAreFresh'
    BY DEF EntriesAreFresh, CountsAreFresh, KeysAreOld
  <2>7. AnswersAreFresh'
    BY DEF AnswersAreFresh, CountsAreFresh, Pages
  <2>8. LastChangeAccounted'
    BY DEF LastChangeAccounted
  <2> QED
    BY <2>1, <2>2, <2>3, <2>4, <2>5, <2>6, <2>7, <2>8
<1>7. ASSUME NEW r \in Requests, Commit(r) PROVE Inv'
  <2> USE <1>7 DEF Commit, Goto, redis
  <2>a. \A t \in Teams : db'[t] \in Nat /\ db[t] <= db'[t]
    OBVIOUS
  <2>1. ChangesAreNumbered'
    BY DEF ChangesAreNumbered
  <2>2. KeysAreOld'
    BY DEF KeysAreOld
  <2>3. CountsAreFresh'
    BY DEF CountsAreFresh
  <2>4. SharersAgree'
    BY DEF SharersAgree
  <2>5. EntriesServe'
    BY DEF EntriesServe
  <2>6. EntriesAreFresh'
    BY <2>a DEF EntriesAreFresh, Entries
  <2>7. AnswersAreFresh'
    BY <2>a DEF AnswersAreFresh, Pages
  <2>8. LastChangeAccounted'
    BY DEF LastChangeAccounted
  <2> QED
    BY <2>1, <2>2, <2>3, <2>4, <2>5, <2>6, <2>7, <2>8
<1>8. ASSUME NEW r \in Requests, CommitUnconfirmed(r) PROVE Inv'
  <2> USE <1>8 DEF CommitUnconfirmed, Answer, redis
  <2>a. \A t \in Teams : db'[t] \in Nat /\ db[t] <= db'[t]
    OBVIOUS
  <2>1. ChangesAreNumbered'
    BY DEF ChangesAreNumbered
  <2>2. KeysAreOld'
    BY DEF KeysAreOld
  <2>3. CountsAreFresh'
    BY DEF CountsAreFresh
  <2>4. SharersAgree'
    BY DEF SharersAgree
  <2>5. EntriesServe'
    BY DEF EntriesServe
  <2>6. EntriesAreFresh'
    BY <2>a DEF EntriesAreFresh, Entries
  <2>7. AnswersAreFresh'
    BY <2>a DEF AnswersAreFresh, Pages
  <2>8. LastChangeAccounted'
    BY DEF LastChangeAccounted
  <2> QED
    BY <2>1, <2>2, <2>3, <2>4, <2>5, <2>6, <2>7, <2>8
<1>9. ASSUME NEW r \in Requests, BumpVersion(r) PROVE Inv'
  <2> USE <1>9 DEF BumpVersion, Bump, Answer
  <2>a. /\ ver[job[r].team] < ver'[job[r].team]
        /\ \A t \in Teams : ver'[t] \in Nat /\ (t # job[r].team => ver'[t] = ver[t])
    OBVIOUS
  <2>1. ChangesAreNumbered'
    BY DEF ChangesAreNumbered
  <2>2. KeysAreOld'
    BY DEF KeysAreOld
  <2>3. CountsAreFresh'
    BY <2>a, NoKeyIsNoVersion DEF CountsAreFresh, KeysAreOld, ChangesAreNumbered
  <2>4. SharersAgree'
    BY DEF SharersAgree
  <2>5. EntriesServe'
    BY DEF EntriesServe
  <2>6. EntriesAreFresh'
    BY <2>a DEF EntriesAreFresh, Entries
  <2>7. AnswersAreFresh'
    BY DEF AnswersAreFresh
  <2>8. LastChangeAccounted'
    BY DEF LastChangeAccounted, ChangesAreNumbered
  <2> QED
    BY <2>1, <2>2, <2>3, <2>4, <2>5, <2>6, <2>7, <2>8
<1>10. ASSUME NEW r \in Requests, BumpFails(r) PROVE Inv'
  <2> USE <1>10 DEF BumpFails, Bump, Answer
  <2>a. \A t \in Teams : ver'[t] \in Nat /\ ver[t] <= ver'[t]
    OBVIOUS
  <2>1. ChangesAreNumbered'
    BY DEF ChangesAreNumbered
  <2>2. KeysAreOld'
    BY <2>a DEF KeysAreOld
  <2>3. CountsAreFresh'
    BY <2>a, NoKeyIsNoVersion DEF CountsAreFresh, KeysAreOld
  <2>4. SharersAgree'
    BY DEF SharersAgree
  <2>5. EntriesServe'
    BY DEF EntriesServe
  <2>6. EntriesAreFresh'
    BY <2>a DEF EntriesAreFresh, Entries
  <2>7. AnswersAreFresh'
    BY DEF AnswersAreFresh
  <2>8. LastChangeAccounted'
    BY DEF LastChangeAccounted
  <2> QED
    BY <2>1, <2>2, <2>3, <2>4, <2>5, <2>6, <2>7, <2>8
<1>11. ASSUME NEW r \in Requests, Fail(r) PROVE Inv'
  <2> USE <1>11 DEF Fail, Answer, redis
  <2>1. ChangesAreNumbered'
    BY DEF ChangesAreNumbered
  <2>2. KeysAreOld'
    BY DEF KeysAreOld
  <2>3. CountsAreFresh'
    BY DEF CountsAreFresh
  <2>4. SharersAgree'
    BY DEF SharersAgree
  <2>5. EntriesServe'
    BY DEF EntriesServe
  <2>6. EntriesAreFresh'
    BY DEF EntriesAreFresh
  <2>7. AnswersAreFresh'
    BY DEF AnswersAreFresh
  <2>8. LastChangeAccounted'
    <3> SUFFICES ASSUME NEW t \in Teams, ~lost'[t], hi[t] # db[t]
                 PROVE  \E s \in Requests : /\ job[s] \in WriteJobs /\ job[s].team = t
                                            /\ pc'[s] = "bump" /\ since[s] = db[t]
      BY DEF LastChangeAccounted
    <3>1. ~lost[t] /\ ~(pc[r] = "bump" /\ t = job[r].team)
      OBVIOUS
    <3>2. PICK s \in Requests : /\ job[s] \in WriteJobs /\ job[s].team = t
                               /\ pc[s] = "bump" /\ since[s] = db[t]
       BY <3>1 DEF LastChangeAccounted
    <3> QED
      BY <3>1, <3>2
  <2> QED
    BY <2>1, <2>2, <2>3, <2>4, <2>5, <2>6, <2>7, <2>8
<1>12. ASSUME NEW e \in cache, Expire(e) PROVE Inv'
  <2> USE <1>12 DEF Expire, control, ghosts
  <2>1. ChangesAreNumbered'
    BY DEF ChangesAreNumbered
  <2>2. KeysAreOld'
    BY DEF KeysAreOld
  <2>3. CountsAreFresh'
    BY DEF CountsAreFresh
  <2>4. SharersAgree'
    BY DEF SharersAgree
  <2>5. EntriesServe'
    BY DEF EntriesServe
  <2>6. EntriesAreFresh'
    BY DEF EntriesAreFresh
  <2>7. AnswersAreFresh'
    BY DEF AnswersAreFresh
  <2>8. LastChangeAccounted'
    BY DEF LastChangeAccounted
  <2> QED
    BY <2>1, <2>2, <2>3, <2>4, <2>5, <2>6, <2>7, <2>8
<1>13. ASSUME NEW t \in Teams, Forget(t) PROVE Inv'
  <2> USE <1>13 DEF Forget, control
  <2>1. ChangesAreNumbered'
    BY DEF ChangesAreNumbered
  <2>2. KeysAreOld'
    BY DEF KeysAreOld
  <2>3. CountsAreFresh'
    BY DEF CountsAreFresh
  <2>4. SharersAgree'
    BY DEF SharersAgree
  <2>5. EntriesServe'
    BY DEF EntriesServe
  <2>6. EntriesAreFresh'
    BY DEF EntriesAreFresh
  <2>7. AnswersAreFresh'
    BY DEF AnswersAreFresh
  <2>8. LastChangeAccounted'
    BY DEF LastChangeAccounted
  <2> QED
    BY <2>1, <2>2, <2>3, <2>4, <2>5, <2>6, <2>7, <2>8
<1>14. CASE UNCHANGED vars
  BY <1>14 DEF vars, ChangesAreNumbered, KeysAreOld, CountsAreFresh, SharersAgree, EntriesServe,
     EntriesAreFresh, AnswersAreFresh, LastChangeAccounted
<1> QED
  BY <1>1, <1>2, <1>3, <1>4, <1>5, <1>6, <1>7, <1>8, <1>9, <1>10, <1>11, <1>12, <1>13, <1>14
  DEF Next, Work, ExpireSome

LEMMA Invariance == Spec => [](TypeOK /\ Inv)
<1>1. Init => TypeOK /\ Inv
  BY InitTyped, InitInv
<1>2. TypeOK /\ Inv /\ [Next]_vars => TypeOK' /\ Inv'
  BY StepTyped, StepInv
<1> QED
  BY <1>1, <1>2, PTL DEF Spec

(* What a reader can reach in the cache holds every change whose bump took     *)
(* effect, and nothing is stored under a version yet to come.                  *)
THEOREM CacheFreshness == Spec => []EntriesAreFresh
<1>1. Inv => EntriesAreFresh
  BY DEF Inv
<1> QED
  BY <1>1, Invariance, PTL

(* A list is the page that was asked for and shows every change whose bump     *)
(* took effect before the request came.                                        *)
THEOREM AnswerFreshness == Spec => []AnswersAreFresh
<1>1. Inv => AnswersAreFresh
  BY DEF Inv
<1> QED
  BY <1>1, Invariance, PTL

(* With no change under way and none lost between commit and bump, the cache   *)
(* shows exactly what MySQL holds.                                             *)
THEOREM QuietFreshness == Spec => []FreshUnlessBumpLost
<1>1. TypeOK /\ Inv => FreshUnlessBumpLost
  <2> SUFFICES ASSUME TypeOK, Inv,
                      NEW t \in Teams, NoWriteInFlight(t), ~lost[t], ~fell[t],
                      NEW e \in cache, e.team = t, e.ver = ver[t]
               PROVE  e.total = db[t] /\ e.rows = db[t]
    BY DEF FreshUnlessBumpLost, Reachable
  <2>1. hi[t] = db[t]
    BY DEF Inv, LastChangeAccounted, NoWriteInFlight, Team
  <2>2. hi[t] <= e.total /\ e.total <= e.rows /\ e.rows <= db[t]
    BY DEF Inv, EntriesAreFresh
  <2> QED
    BY <2>1, <2>2 DEF TypeOK, Entries
<1> QED
  BY <1>1, Invariance, PTL

================================================================================
