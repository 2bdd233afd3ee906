---------------------------- MODULE AccountsProofs ----------------------------
(* Registration, login and tokens, and the middleware around them, for any     *)
(* users, requests and clocks.                                                 *)
EXTENDS Accounts, FiniteSetTheorems, SequenceTheorems, TLAPS

(* The inductive invariant, of the middleware first.  A request that has no    *)
(* answer yet, a request that has one, and its line in the log                 *)
Unanswered(r) == pc[r] \in {"idle"} \union HandlerPcs

LoggingIsSound(r) ==
    /\ Unanswered(r) => sent[r] = 0 /\ late[r] = FALSE
    /\ pc[r] \in Unwinding \union {"done"} =>
          sent[r] # 0 /\ recorded[r] = IF late[r] THEN 500 ELSE sent[r]
    /\ pc[r] = "failed" => recorded[r] >= 500
    /\ accessLog[r] = IF pc[r] = "done" THEN recorded[r] ELSE 0

(* The requests with status s in the log, and those that are counted but not   *)
(* as errors yet                                                               *)
Logged(s) == {r \in Requests : accessLog[r] = s}

Pending(s) == {r \in Requests : pc[r] = "failed" /\ recorded[r] = s}

SeriesAreSound(s) ==
    /\ IsFiniteSet(Logged(s)) /\ IsFiniteSet(Pending(s))
    /\ Cardinality(Logged(s)) <= requestsTotal[s]
    /\ errorsTotal[s] + Cardinality(Pending(s)) <= requestsTotal[s]
    /\ s >= 500 => Cardinality(Logged(s)) <= errorsTotal[s]
    /\ s < 500 => errorsTotal[s] = 0

MiddlewareInv ==
    /\ MiddlewareTypeOK(HandlerPcs)
    /\ \A r \in Requests : LoggingIsSound(r)
    /\ \A s \in Statuses : SeriesAreSound(s)

(* Then of the accounts.  What request r does fits what it asks for.           *)
JobFits(r) ==
    /\ pc[r] \in {"insert", "reread"} =>
          Asks(r, "register") /\ job[r].email \in Emails /\ job[r].secret \in Passwords
    /\ pc[r] = "lookup" => Asks(r, "login") /\ job[r].email \in Emails
    /\ pc[r] = "handle" => Asks(r, "use")

(* Request r has a row of its own from its INSERT on, and none before.         *)
RowFits(r) ==
    /\ pc[r] \in {"idle", "insert"} => \A id \in DOMAIN users : users[id].by # r
    /\ Asks(r, "register") =>
          /\ pc[r] = "reread" \/ sent[r] = 201 => \E id \in RowsOf(job[r].email) : users[id].by = r
          /\ sent[r] = 409 => \E id \in RowsOf(job[r].email) : users[id].by # r

RefusalFits(r) ==
    Asks(r, "login") /\ sent[r] = 401 => \A id \in 1 .. known[r] :
        Fold[users[id].email] = Fold[job[r].email] => users[id].secret # job[r].secret

(* A token is given with the answer of a login, to the row it found, and is    *)
(* good until less than a second before its expires_at.                        *)
TokenFits(r) ==
    token[r] # NoToken =>
        /\ ~Unanswered(r) /\ Asks(r, "login")
        /\ token[r].uid \in RowsOf(job[r].email) /\ users[token[r].uid].secret = job[r].secret
        /\ token[r].exp <= token[r].expires_at
        /\ token[r].expires_at < token[r].exp + TicksPerSecond

(* What a request with a token was let in with or refused for                  *)
UseFits(r) ==
    Asks(r, "use") /\ job[r].token # Junk =>
        /\ job[r].token \in Requests /\ token[job[r].token] # NoToken
        /\ sent[r] = 401 => token[job[r].token].exp <= at[r]

ActorFits(r) ==
    actor[r] # 0 =>
        /\ Asks(r, "use") /\ job[r].token # Junk
        /\ actor[r] = token[job[r].token].uid
        /\ at[r] < token[job[r].token].exp

RequestFits(r) ==
    JobFits(r) /\ RowFits(r) /\ RefusalFits(r) /\ TokenFits(r) /\ UseFits(r) /\ ActorFits(r)

OneRow == \A i, k \in DOMAIN users : Fold[users[i].email] = Fold[users[k].email] => i = k

(* What TypeOK says of everything but the middleware                           *)
AccountsTypeOK ==
    /\ users \in Seq(User)
    /\ clock \in 0 .. LastTick
    /\ job \in [Requests -> AllJobs \union {NoJob}]
    /\ token \in [Requests -> Token \union {NoToken}]
    /\ actor \in [Requests -> 0 .. Len(users)]
    /\ at \in [Requests -> 0 .. LastTick]
    /\ known \in [Requests -> 0 .. Len(users)]
    /\ \A r \in Requests :
          /\ pc[r] = "idle" <=> job[r] = NoJob
          /\ token[r] # NoToken => token[r].uid <= Len(users)

AccountsInv ==
    /\ AccountsTypeOK
    /\ \A r \in Requests : RequestFits(r)
    /\ OneRow

Inv == MiddlewareInv /\ AccountsInv

-------------------------------------------------------------------------------
(* The middleware *)

(* Only request r moves.                                                       *)
OthersKept(r) ==
    \A x \in Requests : x # r =>
        /\ pc'[x] = pc[x] /\ sent'[x] = sent[x] /\ recorded'[x] = recorded[x]
        /\ accessLog'[x] = accessLog[x] /\ late'[x] = late[x]

LEMMA LogStaysSound ==
    ASSUME MiddlewareInv, NEW r \in Requests, OthersKept(r), LoggingIsSound(r)'
    PROVE  \A x \in Requests : LoggingIsSound(x)'
<1> TAKE x \in Requests
<1>1. CASE x = r
  BY <1>1
<1>2. CASE x # r
  <2>1. LoggingIsSound(x)
    BY DEF MiddlewareInv
  <2>2. /\ pc'[x] = pc[x] /\ sent'[x] = sent[x] /\ recorded'[x] = recorded[x]
        /\ accessLog'[x] = accessLog[x] /\ late'[x] = late[x]
    BY <1>2 DEF OthersKept
  <2> QED
    BY <2>1, <2>2 DEF LoggingIsSound, Unanswered
<1> QED
  BY <1>1, <1>2

LEMMA MiddlewareNumbers ==
    ASSUME MiddlewareInv, NEW s \in Statuses
    PROVE  /\ s \in Nat /\ s # 0
           /\ requestsTotal[s] \in Nat /\ errorsTotal[s] \in Nat
           /\ IsFiniteSet(Logged(s)) /\ Cardinality(Logged(s)) \in Nat
           /\ IsFiniteSet(Pending(s)) /\ Cardinality(Pending(s)) \in Nat
           /\ SeriesAreSound(s)
<1>1. s \in Nat /\ s # 0
  BY DEF Statuses
<1>2. requestsTotal[s] \in Nat /\ errorsTotal[s] \in Nat
  BY DEF MiddlewareInv, MiddlewareTypeOK
<1>3. SeriesAreSound(s)
  BY DEF MiddlewareInv
<1>4. /\ IsFiniteSet(Logged(s)) /\ Cardinality(Logged(s)) \in Nat
      /\ IsFiniteSet(Pending(s)) /\ Cardinality(Pending(s)) \in Nat
  BY <1>3, FS_CardinalityType DEF SeriesAreSound
<1> QED
  BY <1>1, <1>2, <1>3, <1>4

(* The log is as it was and nothing more is pending.                           *)
LEMMA SeriesStay ==
    ASSUME MiddlewareInv, UNCHANGED <<requestsTotal, errorsTotal, accessLog>>,
           NEW s \in Statuses, Pending(s)' \subseteq Pending(s)
    PROVE  SeriesAreSound(s)'
<1>1. /\ requestsTotal[s] \in Nat /\ errorsTotal[s] \in Nat
      /\ IsFiniteSet(Pending(s)) /\ Cardinality(Pending(s)) \in Nat /\ SeriesAreSound(s)
  BY MiddlewareNumbers
<1>2. /\ IsFiniteSet(Pending(s)') /\ Cardinality(Pending(s)') \in Nat
      /\ Cardinality(Pending(s)') <= Cardinality(Pending(s))
  BY <1>1, FS_Subset, FS_CardinalityType
<1>3. Logged(s)' = Logged(s)
  BY DEF Logged
<1>4. errorsTotal[s] + Cardinality(Pending(s)') <= requestsTotal[s]
  BY <1>1, <1>2 DEF SeriesAreSound
<1> QED
  BY <1>1, <1>2, <1>3, <1>4 DEF SeriesAreSound

(* The answer of a handler *)
LEMMA RespondKeepsMiddleware ==
    ASSUME MiddlewareInv, NEW r \in Requests, NEW s \in Statuses,
           Unanswered(r), Respond(r, s)
    PROVE  /\ MiddlewareInv' /\ OthersKept(r)
           /\ pc'[r] = "written" /\ sent'[r] = s
<1>1. MiddlewareTypeOK(HandlerPcs) /\ LoggingIsSound(r)
  BY DEF MiddlewareInv
<1>2. sent[r] = 0 /\ late[r] = FALSE /\ accessLog[r] = 0
  BY <1>1 DEF LoggingIsSound, Unanswered, HandlerPcs
<1>3. /\ sent' = [sent EXCEPT ![r] = s]
      /\ recorded' = [recorded EXCEPT ![r] = s]
      /\ pc' = [pc EXCEPT ![r] = "written"]
      /\ UNCHANGED <<requestsTotal, errorsTotal, accessLog, late>>
  BY <1>1, <1>2 DEF Respond, WriteJSON, Goto, MiddlewareTypeOK
<1>4. /\ pc'[r] = "written" /\ sent'[r] = s /\ recorded'[r] = s
      /\ late'[r] = FALSE /\ accessLog'[r] = 0
      /\ OthersKept(r)
  BY <1>1, <1>2, <1>3 DEF MiddlewareTypeOK, OthersKept
<1>5. MiddlewareTypeOK(HandlerPcs)'
  <2>1. pc' \in [Requests -> {"idle"} \union HandlerPcs \union Unwinding \union Ended]
    BY <1>1, <1>3 DEF MiddlewareTypeOK, Unwinding
  <2>2. sent' \in [Requests -> Statuses \union {0}] /\ recorded' \in [Requests -> Statuses]
    BY <1>1, <1>3 DEF MiddlewareTypeOK
  <2> QED
    BY <1>1, <1>3, <2>1, <2>2 DEF MiddlewareTypeOK
<1>6. s # 0
  BY DEF Statuses
<1>7. LoggingIsSound(r)'
  BY <1>4, <1>6 DEF LoggingIsSound, Unanswered, HandlerPcs
<1>8. \A x \in Requests : LoggingIsSound(x)'
  BY <1>4, <1>7, LogStaysSound
<1>9. \A t \in Statuses : Pending(t)' \subseteq Pending(t)
  BY <1>4 DEF Pending, OthersKept
<1>10. \A t \in Statuses : SeriesAreSound(t)'
  BY <1>3, <1>9, SeriesStay
<1> QED
  BY <1>4, <1>5, <1>8, <1>10 DEF MiddlewareInv

MovesOn(r, where) ==
    /\ Goto(r, where)
    /\ UNCHANGED <<sent, recorded, requestsTotal, errorsTotal, accessLog, late>>

LEMMA GotoKeepsMiddleware ==
    ASSUME MiddlewareInv, NEW r \in Requests, NEW where \in HandlerPcs,
           Unanswered(r), MovesOn(r, where)
    PROVE  /\ MiddlewareInv' /\ OthersKept(r)
           /\ pc'[r] = where /\ sent'[r] = sent[r]
<1>1. MiddlewareTypeOK(HandlerPcs) /\ LoggingIsSound(r)
  BY DEF MiddlewareInv
<1>2. /\ pc' = [pc EXCEPT ![r] = where]
      /\ UNCHANGED <<sent, recorded, requestsTotal, errorsTotal, accessLog, late>>
  BY DEF MovesOn, Goto
<1>3. pc'[r] = where /\ sent'[r] = sent[r] /\ OthersKept(r)
  BY <1>1, <1>2 DEF MiddlewareTypeOK, OthersKept
<1>4. MiddlewareTypeOK(HandlerPcs)'
  <2>1. pc' \in [Requests -> {"idle"} \union HandlerPcs \union Unwinding \union Ended]
    BY <1>1, <1>2 DEF MiddlewareTypeOK
  <2> QED
    BY <1>1, <1>2, <2>1 DEF MiddlewareTypeOK
<1>5. LoggingIsSound(r)'
  BY <1>1, <1>2, <1>3 DEF LoggingIsSound, Unanswered, HandlerPcs, Unwinding
<1>6. \A x \in Requests : LoggingIsSound(x)'
  BY <1>3, <1>5, LogStaysSound
<1>7. where # "failed"
  BY DEF HandlerPcs
<1>8. \A t \in Statuses : Pending(t)' \subseteq Pending(t)
  BY <1>3, <1>7 DEF Pending, OthersKept
<1>9. \A t \in Statuses : SeriesAreSound(t)'
  BY <1>2, <1>8, SeriesStay
<1> QED
  BY <1>3, <1>4, <1>6, <1>9 DEF MiddlewareInv

LEMMA PanicKeepsMiddleware ==
    ASSUME MiddlewareInv, NEW r \in Requests, Panic(r)
    PROVE  /\ MiddlewareInv' /\ OthersKept(r)
           /\ pc'[r] = "recovered" /\ pc[r] # "idle"
           /\ sent'[r] = IF sent[r] = 0 THEN 500 ELSE sent[r]
<1>1. MiddlewareTypeOK(HandlerPcs) /\ LoggingIsSound(r)
  BY DEF MiddlewareInv
<1>2. pc[r] \in HandlerPcs \union {"written"}
  BY <1>1 DEF Panic, InFlight, Unwinding, Ended, MiddlewareTypeOK, HandlerPcs
<1>3. /\ pc' = [pc EXCEPT ![r] = "recovered"]
      /\ sent' = [sent EXCEPT ![r] = IF sent[r] = 0 THEN 500 ELSE sent[r]]
      /\ recorded' = [recorded EXCEPT ![r] = 500]
      /\ late' = [late EXCEPT ![r] = sent[r] # 0]
      /\ UNCHANGED <<requestsTotal, errorsTotal, accessLog>>
  BY <1>1 DEF Panic, WriteJSON, Goto, MiddlewareTypeOK
<1>4. /\ pc'[r] = "recovered" /\ recorded'[r] = 500 /\ accessLog'[r] = accessLog[r]
      /\ sent'[r] = IF sent[r] = 0 THEN 500 ELSE sent[r]
      /\ late'[r] = (sent[r] # 0)
  BY <1>1, <1>3 DEF MiddlewareTypeOK
<1>5. OthersKept(r)
  BY <1>1, <1>3 DEF MiddlewareTypeOK, OthersKept
<1>6. MiddlewareTypeOK(HandlerPcs)'
  <2>1. pc' \in [Requests -> {"idle"} \union HandlerPcs \union Unwinding \union Ended]
    BY <1>1, <1>3 DEF MiddlewareTypeOK, Unwinding
  <2>2. 500 \in Statuses
    BY DEF Statuses
  <2>3. sent' \in [Requests -> Statuses \union {0}] /\ recorded' \in [Requests -> Statuses]
    BY <1>1, <1>3, <2>2 DEF MiddlewareTypeOK
  <2>4. late' \in [Requests -> BOOLEAN]
    BY <1>1, <1>3 DEF MiddlewareTypeOK
  <2> QED
    BY <1>1, <1>3, <2>1, <2>3, <2>4 DEF MiddlewareTypeOK
<1>7. accessLog[r] = 0
  BY <1>1, <1>2 DEF LoggingIsSound, HandlerPcs
<1>8. LoggingIsSound(r)'
  <2>1. sent'[r] # 0 /\ 500 = IF late'[r] THEN 500 ELSE sent'[r]
    <3>1. CASE sent[r] = 0
      <4>1. sent'[r] = 500
        BY <1>4, <3>1
      <4> QED
        BY <4>1
    <3>2. CASE sent[r] # 0
      <4>1. sent'[r] = sent[r] /\ late'[r] = TRUE
        BY <1>4, <3>2
      <4> QED
        BY <3>2, <4>1
    <3> QED
      BY <3>1, <3>2
  <2> QED
    BY <1>4, <1>7, <2>1 DEF LoggingIsSound, Unanswered, HandlerPcs
<1>9. \A x \in Requests : LoggingIsSound(x)'
  BY <1>5, <1>8, LogStaysSound
<1>10. \A t \in Statuses : Pending(t)' \subseteq Pending(t)
  BY <1>4, <1>5 DEF Pending, OthersKept
<1>11. \A t \in Statuses : SeriesAreSound(t)'
  BY <1>3, <1>10, SeriesStay
<1> QED
  BY <1>2, <1>4, <1>5, <1>6, <1>9, <1>11 DEF MiddlewareInv, HandlerPcs

LEMMA DropKeepsMiddleware ==
    ASSUME MiddlewareInv, NEW r \in Requests, Drop(r)
    PROVE  /\ MiddlewareInv' /\ OthersKept(r)
           /\ pc'[r] = "dropped" /\ pc[r] # "idle" /\ sent'[r] = sent[r]
<1>1. MiddlewareTypeOK(HandlerPcs) /\ LoggingIsSound(r)
  BY DEF MiddlewareInv
<1>2. /\ pc[r] # "idle" /\ pc[r] # "done"
      /\ pc' = [pc EXCEPT ![r] = "dropped"]
      /\ UNCHANGED <<sent, recorded, requestsTotal, errorsTotal, accessLog, late>>
  BY DEF Drop, InFlight, Ended, Goto
<1>3. pc'[r] = "dropped" /\ OthersKept(r)
  BY <1>1, <1>2 DEF MiddlewareTypeOK, OthersKept
<1>4. MiddlewareTypeOK(HandlerPcs)'
  <2>1. pc' \in [Requests -> {"idle"} \union HandlerPcs \union Unwinding \union Ended]
    BY <1>1, <1>2 DEF MiddlewareTypeOK, Ended
  <2> QED
    BY <1>1, <1>2, <2>1 DEF MiddlewareTypeOK
<1>5. LoggingIsSound(r)'
  BY <1>1, <1>2, <1>3 DEF LoggingIsSound, Unanswered, HandlerPcs, Unwinding
<1>6. \A x \in Requests : LoggingIsSound(x)'
  BY <1>3, <1>5, LogStaysSound
<1>7. \A t \in Statuses : Pending(t)' \subseteq Pending(t)
  BY <1>3 DEF Pending, OthersKept
<1>8. \A t \in Statuses : SeriesAreSound(t)'
  BY <1>2, <1>7, SeriesStay
<1> QED
  BY <1>2, <1>3, <1>4, <1>6, <1>8 DEF MiddlewareInv

(* What the unwinding of request r through Metrics and Logging does to its own *)
(* fields                                                                      *)
LEMMA ReturnMoves ==
    ASSUME MiddlewareInv, NEW r \in Requests, Return(r)
    PROVE  /\ MiddlewareTypeOK(HandlerPcs)'
           /\ \A x \in Requests : LoggingIsSound(x)'
           /\ OthersKept(r) /\ UNCHANGED <<sent, recorded, late>>
           /\ recorded[r] \in Statuses
           /\ pc'[r] = IF CountRequest(r) /\ IsError(recorded[r]) THEN "failed" ELSE "done"
           /\ CountRequest(r) => pc[r] \in {"written", "recovered"}
           /\ CountError(r) => pc[r] = "failed"
<1>1. MiddlewareTypeOK(HandlerPcs) /\ LoggingIsSound(r) /\ recorded[r] \in Statuses
  BY DEF MiddlewareInv, MiddlewareTypeOK
<1>2. UNCHANGED <<sent, recorded, late>>
  BY DEF Return, CountRequest, CountError
<1>3. /\ CountRequest(r) => pc[r] \in {"written", "recovered"}
      /\ CountError(r) => pc[r] = "failed"
  BY DEF CountRequest, CountError
<1>4. \/ /\ CountRequest(r) /\ IsError(recorded[r])
         /\ pc' = [pc EXCEPT ![r] = "failed"] /\ UNCHANGED accessLog
      \/ /\ ~(CountRequest(r) /\ IsError(recorded[r]))
         /\ pc' = [pc EXCEPT ![r] = "done"]
         /\ accessLog' = [accessLog EXCEPT ![r] = recorded[r]]
  BY <1>3 DEF Return, CountRequest, CountError, LogRequest, Goto
<1>5. /\ pc'[r] = IF CountRequest(r) /\ IsError(recorded[r]) THEN "failed" ELSE "done"
      /\ accessLog'[r] = IF pc'[r] = "done" THEN recorded[r] ELSE accessLog[r]
      /\ OthersKept(r)
  BY <1>1, <1>2, <1>4 DEF MiddlewareTypeOK, OthersKept
<1>6. MiddlewareTypeOK(HandlerPcs)'
  <2>1. pc' \in [Requests -> {"idle"} \union HandlerPcs \union Unwinding \union Ended]
    BY <1>1, <1>4 DEF MiddlewareTypeOK, Unwinding, Ended
  <2>2. accessLog' \in [Requests -> Statuses \union {0}]
    BY <1>1, <1>4 DEF MiddlewareTypeOK
  <2>3. requestsTotal' \in [Statuses -> Nat] /\ errorsTotal' \in [Statuses -> Nat]
    BY <1>1 DEF MiddlewareTypeOK, Return, CountRequest, CountError
  <2> QED
    BY <1>1, <1>2, <2>1, <2>2, <2>3 DEF MiddlewareTypeOK
<1>7. LoggingIsSound(r)'
  <2>1. /\ sent[r] # 0 /\ recorded[r] = (IF late[r] THEN 500 ELSE sent[r])
        /\ accessLog[r] = 0
    BY <1>1, <1>3 DEF LoggingIsSound, Return, Unwinding
  <2>2. IsError(recorded[r]) => recorded[r] >= 500
    BY DEF IsError
  <2> QED
    BY <1>2, <1>5, <2>1, <2>2 DEF LoggingIsSound, Unanswered, HandlerPcs, Unwinding
<1>8. \A x \in Requests : LoggingIsSound(x)'
  BY <1>5, <1>7, LogStaysSound
<1> QED
  BY <1>1, <1>2, <1>3, <1>5, <1>6, <1>8

LEMMA CountRequestKeepsMiddleware ==
    ASSUME MiddlewareInv, NEW r \in Requests, CountRequest(r)
    PROVE  MiddlewareInv'
<1>1. Return(r)
  BY DEF Return
<1>2. /\ MiddlewareTypeOK(HandlerPcs)'
      /\ \A x \in Requests : LoggingIsSound(x)'
      /\ OthersKept(r) /\ UNCHANGED <<sent, recorded, late>>
      /\ recorded[r] \in Statuses
      /\ pc'[r] = IF IsError(recorded[r]) THEN "failed" ELSE "done"
      /\ pc[r] \in {"written", "recovered"}
  BY <1>1, ReturnMoves
<1>3. ASSUME NEW s \in Statuses
      PROVE  /\ requestsTotal'[s] = IF s = recorded[r] THEN requestsTotal[s] + 1 ELSE requestsTotal[s]
             /\ errorsTotal'[s] = errorsTotal[s]
  BY <1>2 DEF CountRequest, MiddlewareInv, MiddlewareTypeOK
<1>4. accessLog[r] = 0 /\ accessLog'[r] = IF IsError(recorded[r]) THEN 0 ELSE recorded[r]
  <2>1. accessLog[r] = 0
    BY <1>2 DEF MiddlewareInv, LoggingIsSound
  <2>2. CASE IsError(recorded[r])
    BY <2>1, <2>2 DEF CountRequest
  <2>3. CASE ~IsError(recorded[r])
    BY <2>1, <2>3 DEF CountRequest, LogRequest, MiddlewareInv, MiddlewareTypeOK
  <2> QED
    BY <2>1, <2>2, <2>3
<1>5. ASSUME NEW s \in Statuses
      PROVE  SeriesAreSound(s)'
  <2>1. /\ s \in Nat /\ s # 0
        /\ requestsTotal[s] \in Nat /\ errorsTotal[s] \in Nat
        /\ IsFiniteSet(Logged(s)) /\ Cardinality(Logged(s)) \in Nat
        /\ IsFiniteSet(Pending(s)) /\ Cardinality(Pending(s)) \in Nat
        /\ SeriesAreSound(s)
    BY MiddlewareNumbers
  <2>2. r \notin Logged(s) /\ r \notin Pending(s)
    BY <1>2, <1>4, <2>1 DEF Logged, Pending
  <2>3. CASE s # recorded[r]
    <3>1. Logged(s)' = Logged(s)
      BY <1>2, <1>4, <2>1, <2>3 DEF Logged, OthersKept
    <3>2. Pending(s)' = Pending(s)
      BY <1>2, <2>2, <2>3 DEF Pending, OthersKept
    <3> QED
      BY <1>3, <2>1, <2>3, <3>1, <3>2 DEF SeriesAreSound
  <2>4. CASE s = recorded[r] /\ IsError(s)
    <3>1. Logged(s)' = Logged(s)
      BY <1>2, <1>4, <2>1, <2>4 DEF Logged, OthersKept
    <3>2. Pending(s)' = Pending(s) \union {r}
      BY <1>2, <2>2, <2>4 DEF Pending, OthersKept
    <3>3. IsFiniteSet(Pending(s)') /\ Cardinality(Pending(s)') = Cardinality(Pending(s)) + 1
      BY <2>1, <2>2, <3>2, FS_AddElement
    <3> QED
      BY <1>3, <2>1, <2>4, <3>1, <3>3 DEF SeriesAreSound
  <2>5. CASE s = recorded[r] /\ ~IsError(s)
    <3>1. Logged(s)' = Logged(s) \union {r}
      BY <1>2, <1>4, <2>5 DEF Logged, OthersKept
    <3>2. Pending(s)' = Pending(s)
      BY <1>2, <2>2, <2>5 DEF Pending, OthersKept
    <3>3. IsFiniteSet(Logged(s)') /\ Cardinality(Logged(s)') = Cardinality(Logged(s)) + 1
      BY <2>1, <2>2, <3>1, FS_AddElement
    <3>4. s < 500 /\ ~(s >= 500)
      BY <2>1, <2>5 DEF IsError
    <3> QED
      BY <1>3, <2>1, <2>5, <3>2, <3>3, <3>4 DEF SeriesAreSound
  <2> QED
    BY <2>3, <2>4, <2>5
<1> QED
  BY <1>2, <1>5 DEF MiddlewareInv

LEMMA CountErrorKeepsMiddleware ==
    ASSUME MiddlewareInv, NEW r \in Requests, CountError(r)
    PROVE  MiddlewareInv'
<1>1. Return(r) /\ pc[r] = "failed" /\ ~CountRequest(r)
  BY DEF Return, CountError, CountRequest
<1>2. /\ MiddlewareTypeOK(HandlerPcs)'
      /\ \A x \in Requests : LoggingIsSound(x)'
      /\ OthersKept(r) /\ UNCHANGED <<sent, recorded, late>>
      /\ recorded[r] \in Statuses
      /\ pc'[r] = "done"
  BY <1>1, ReturnMoves
<1>3. ASSUME NEW s \in Statuses
      PROVE  /\ requestsTotal'[s] = requestsTotal[s]
             /\ errorsTotal'[s] = IF s = recorded[r] THEN errorsTotal[s] + 1 ELSE errorsTotal[s]
  BY <1>2 DEF CountError, MiddlewareInv, MiddlewareTypeOK
<1>4. accessLog[r] = 0 /\ accessLog'[r] = recorded[r] /\ recorded[r] >= 500
  <2>1. accessLog[r] = 0 /\ recorded[r] >= 500
    BY <1>1 DEF MiddlewareInv, LoggingIsSound
  <2> QED
    BY <2>1 DEF CountError, LogRequest, MiddlewareInv, MiddlewareTypeOK
<1>5. ASSUME NEW s \in Statuses
      PROVE  SeriesAreSound(s)'
  <2>1. /\ s \in Nat /\ s # 0
        /\ requestsTotal[s] \in Nat /\ errorsTotal[s] \in Nat
        /\ IsFiniteSet(Logged(s)) /\ Cardinality(Logged(s)) \in Nat
        /\ IsFiniteSet(Pending(s)) /\ Cardinality(Pending(s)) \in Nat
        /\ SeriesAreSound(s)
    BY MiddlewareNumbers
  <2>2. r \notin Logged(s)
    BY <1>4, <2>1 DEF Logged
  <2>3. CASE s # recorded[r]
    <3>1. Logged(s)' = Logged(s)
      BY <1>2, <1>4, <2>2, <2>3 DEF Logged, OthersKept
    <3>2. Pending(s)' = Pending(s)
      BY <1>2, <2>3 DEF Pending, OthersKept
    <3> QED
      BY <1>3, <2>1, <2>3, <3>1, <3>2 DEF SeriesAreSound
  <2>4. CASE s = recorded[r]
    <3>1. Logged(s)' = Logged(s) \union {r}
      BY <1>2, <1>4, <2>4 DEF Logged, OthersKept
    <3>2. Pending(s)' = Pending(s) \ {r} /\ r \in Pending(s)
      BY <1>1, <1>2, <2>4 DEF Pending, OthersKept
    <3>3. IsFiniteSet(Logged(s)') /\ Cardinality(Logged(s)') = Cardinality(Logged(s)) + 1
      BY <2>1, <2>2, <3>1, FS_AddElement
    <3>4. IsFiniteSet(Pending(s)') /\ Cardinality(Pending(s)') = Cardinality(Pending(s)) - 1
      BY <2>1, <3>2, FS_RemoveElement
    <3>5. Cardinality(Pending(s)') \in Nat
      BY <3>4, FS_CardinalityType
    <3>6. s >= 500 /\ ~(s < 500)
      BY <1>4, <2>1, <2>4
    <3>7. /\ requestsTotal'[s] = requestsTotal[s] /\ errorsTotal'[s] = errorsTotal[s] + 1
      BY <1>3, <2>4
    <3>8. Cardinality(Logged(s)) <= errorsTotal[s] /\ errorsTotal[s] + Cardinality(Pending(s)) <= requestsTotal[s]
      BY <2>1, <3>6 DEF SeriesAreSound
    <3>9. /\ Cardinality(Logged(s)') <= requestsTotal'[s]
          /\ errorsTotal'[s] + Cardinality(Pending(s)') <= requestsTotal'[s]
          /\ Cardinality(Logged(s)') <= errorsTotal'[s]
      BY <2>1, <3>3, <3>4, <3>5, <3>7, <3>8
    <3> QED
      BY <3>3, <3>4, <3>6, <3>9 DEF SeriesAreSound
  <2> QED
    BY <2>3, <2>4
<1> QED
  BY <1>2, <1>5 DEF MiddlewareInv

-------------------------------------------------------------------------------
(* The clock, the jobs and the table of users *)

(* jwt.NumericDate drops less than a second.                                   *)
LEMMA NumericDateIsClose ==
    ASSUME NEW t \in Nat
    PROVE  /\ NumericDate(t) \in Nat
           /\ NumericDate(t) <= t
           /\ t < NumericDate(t) + TicksPerSecond
<1>1. TicksPerSecond \in Nat \ {0}
  BY ClockIsNatural
<1>2. t % TicksPerSecond \in 0 .. TicksPerSecond - 1
  BY <1>1
<1>3. t = TicksPerSecond * (t \div TicksPerSecond) + (t % TicksPerSecond)
  BY <1>1
<1>4. t \div TicksPerSecond \in Nat
  BY <1>1
<1>5. TicksPerSecond * (t \div TicksPerSecond) \in Nat
  BY <1>1, <1>4
<1> QED
  BY <1>1, <1>2, <1>3, <1>5 DEF NumericDate

LEMMA JobIsShaped ==
    ASSUME NEW j \in AllJobs
    PROVE  /\ j # NoJob /\ j.op \in {"register", "login", "use", "unmatched"}
           /\ j.op = "use" => j.token \in Requests \union {Junk}
           /\ j.op \in {"register", "login"} =>
                j.email \in Emails \union {Junk} /\ j.secret \in Passwords \union {Short, Junk}
<1>1. j # NoJob
  BY JobsAreJobs
<1>2. CASE j \in [op : {"register", "login"}, email : Emails \union {Junk},
                  secret : Passwords \union {Short, Junk}]
  BY <1>1, <1>2
<1>3. CASE j \in [op : {"use"}, token : Requests \union {Junk}]
  BY <1>1, <1>3
<1>4. CASE j \in [op : {"unmatched"}]
  BY <1>1, <1>4
<1> QED
  BY <1>2, <1>3, <1>4 DEF AllJobs

UsersGrow ==
    /\ Len(users) \in Nat /\ Len(users') \in Nat /\ Len(users) <= Len(users')
    /\ DOMAIN users = 1 .. Len(users) /\ DOMAIN users' = 1 .. Len(users')
    /\ \A id \in DOMAIN users : id \in DOMAIN users' /\ users'[id] = users[id]

LEMMA UsersStay ==
    ASSUME AccountsTypeOK, UNCHANGED users
    PROVE  UsersGrow
BY DEF AccountsTypeOK, UsersGrow

LEMMA InsertGrows ==
    ASSUME AccountsTypeOK, NEW r \in Requests, AddUser(r),
           job[r].email \in Emails, job[r].secret \in Passwords
    PROVE  /\ UsersGrow /\ users' \in Seq(User)
           /\ Len(users') = Len(users) + 1
           /\ users'[Len(users')] = [email |-> job[r].email, secret |-> job[r].secret, by |-> r]
<1> DEFINE row == [email |-> job[r].email, secret |-> job[r].secret, by |-> r]
<1>1. row \in User
  BY DEF User
<1>2. users \in Seq(User) /\ users' = Append(users, row)
  BY DEF AccountsTypeOK, AddUser
<1> HIDE DEF row
<1>3. /\ users' \in Seq(User) /\ Len(users') = Len(users) + 1
      /\ \A id \in 1 .. Len(users) : users'[id] = users[id]
      /\ users'[Len(users) + 1] = row
  BY <1>1, <1>2, AppendProperties
<1>4. UsersGrow
  BY <1>2, <1>3 DEF UsersGrow
<1> QED
  BY <1>3, <1>4 DEF row

-------------------------------------------------------------------------------
(* The accounts *)

TokensStay == \A y \in Requests : token[y] # NoToken => token'[y] = token[y]

NoRowOf(x) == \A id \in DOMAIN users' : id \in DOMAIN users \/ users'[id].by # x

(* A request that does not move                                                *)
StandsStill(x) ==
    /\ pc'[x] = pc[x] /\ sent'[x] = sent[x] /\ job'[x] = job[x] /\ token'[x] = token[x]
    /\ actor'[x] = actor[x] /\ at'[x] = at[x] /\ known'[x] = known[x]

LEMMA OthersStayIdle ==
    ASSUME AccountsTypeOK, NEW r \in Requests, OthersKept(r), NEW x \in Requests, x # r
    PROVE  pc'[x] = "idle" <=> job[x] = NoJob
<1>1. pc'[x] = pc[x]
  BY DEF OthersKept
<1>2. pc[x] = "idle" <=> job[x] = NoJob
  BY DEF AccountsTypeOK
<1> QED
  BY <1>1, <1>2

LEMMA StillRequestFits ==
    ASSUME AccountsInv, UsersGrow, TokensStay, NEW x \in Requests, StandsStill(x), NoRowOf(x)
    PROVE  RequestFits(x)'
<1>1. AccountsTypeOK /\ RequestFits(x)
  BY DEF AccountsInv
<1>2. known[x] \in 0 .. Len(users) /\ Len(users) \in Nat /\ DOMAIN users = 1 .. Len(users)
  BY <1>1 DEF AccountsTypeOK, UsersGrow
<1>3. \A id \in 1 .. known[x] : id \in DOMAIN users
  BY <1>2
<1>4. Asks(x, "register")' = Asks(x, "register") /\ Asks(x, "login")' = Asks(x, "login")
      /\ Asks(x, "use")' = Asks(x, "use") /\ Unanswered(x)' = Unanswered(x)
  BY DEF StandsStill, Asks, Unanswered
<1>5. JobFits(x)'
  BY <1>1, <1>4 DEF RequestFits, JobFits, StandsStill
<1>6. RowFits(x)'
  <2>1. pc'[x] \in {"idle", "insert"} => \A id \in DOMAIN users' : users'[id].by # x
    BY <1>1 DEF RequestFits, RowFits, StandsStill, NoRowOf, UsersGrow
  <2>2. ASSUME \E id \in RowsOf(job[x].email) : users[id].by = x
        PROVE  \E id \in RowsOf(job[x].email)' : users'[id].by = x
    BY <2>2 DEF RowsOf, UsersGrow, StandsStill
  <2>3. ASSUME \E id \in RowsOf(job[x].email) : users[id].by # x
        PROVE  \E id \in RowsOf(job[x].email)' : users'[id].by # x
    BY <2>3 DEF RowsOf, UsersGrow, StandsStill
  <2> QED
    BY <1>1, <1>4, <2>1, <2>2, <2>3 DEF RequestFits, RowFits, StandsStill
<1>7. RefusalFits(x)'
  BY <1>1, <1>3, <1>4 DEF RequestFits, RefusalFits, StandsStill, UsersGrow
<1>8. TokenFits(x)'
  BY <1>1, <1>4 DEF RequestFits, TokenFits, StandsStill, UsersGrow, RowsOf
<1>9. UseFits(x)'
  BY <1>1, <1>4 DEF RequestFits, UseFits, StandsStill, TokensStay
<1>10. ActorFits(x)'
  BY <1>1, <1>4 DEF RequestFits, ActorFits, UseFits, StandsStill, TokensStay
<1> QED
  BY <1>5, <1>6, <1>7, <1>8, <1>9, <1>10 DEF RequestFits

(* A request that is answered or unwinds, and changes no account               *)
Settles(r) ==
    /\ pc'[r] \in Unwinding \union Ended
    /\ \/ sent'[r] = sent[r]
       \/ sent'[r] \notin {201, 401, 409}
       \/ sent'[r] = 201 /\ pc[r] = "reread"

AccountsKept == UNCHANGED <<users, token, clock, job, actor, at, known>>

LEMMA SettledRequestFits ==
    ASSUME AccountsInv, AccountsKept, NEW r \in Requests, Settles(r)
    PROVE  RequestFits(r)'
<1>1. AccountsTypeOK /\ RequestFits(r)
  BY DEF AccountsInv
<1> USE DEF AccountsKept
<1>2. Asks(r, "register")' = Asks(r, "register") /\ Asks(r, "login")' = Asks(r, "login")
      /\ Asks(r, "use")' = Asks(r, "use")
  BY DEF Asks
<1>3. pc'[r] \in {"written", "recovered", "failed", "done", "dropped"}
  BY DEF Settles, Unwinding, Ended
<1>4. Unanswered(r)' = FALSE
  BY <1>3 DEF Unanswered, HandlerPcs
<1>5. JobFits(r)'
  BY <1>3 DEF JobFits
<1>6. RowFits(r)'
  <2>1. Asks(r, "register") /\ sent'[r] = 201 => \E id \in RowsOf(job[r].email) : users[id].by = r
    BY <1>1 DEF RequestFits, RowFits, Settles
  <2>2. Asks(r, "register") /\ sent'[r] = 409 => \E id \in RowsOf(job[r].email) : users[id].by # r
    BY <1>1 DEF RequestFits, RowFits, Settles
  <2>3. RowsOf(job[r].email)' = RowsOf(job[r].email)
    BY DEF RowsOf
  <2> QED
    BY <1>2, <1>3, <2>1, <2>2, <2>3 DEF RowFits
<1>7. RefusalFits(r)'
  BY <1>1, <1>2 DEF RequestFits, RefusalFits, Settles
<1>8. TokenFits(r)'
  BY <1>1, <1>2, <1>4 DEF RequestFits, TokenFits, RowsOf
<1>9. UseFits(r)'
  BY <1>1, <1>2 DEF RequestFits, UseFits, Settles
<1>10. ActorFits(r)'
  BY <1>1, <1>2 DEF RequestFits, ActorFits
<1> QED
  BY <1>5, <1>6, <1>7, <1>8, <1>9, <1>10 DEF RequestFits

LEMMA SettlingKeepsAccounts ==
    ASSUME AccountsInv, AccountsKept, NEW r \in Requests, Settles(r), OthersKept(r),
           pc[r] # "idle"
    PROVE  AccountsInv'
<1>1. AccountsTypeOK
  BY DEF AccountsInv
<1>2. ASSUME NEW x \in Requests
      PROVE  RequestFits(x)'
  <2>1. CASE x = r
    BY <2>1, SettledRequestFits
  <2>2. CASE x # r
    <3>1. StandsStill(x)
      BY <2>2 DEF StandsStill, OthersKept, AccountsKept
    <3>2. UsersGrow /\ TokensStay /\ NoRowOf(x)
      BY <1>1, UsersStay DEF AccountsKept, TokensStay, NoRowOf
    <3> QED
      BY <3>1, <3>2, StillRequestFits
  <2> QED
    BY <2>1, <2>2
<1>3. OneRow'
  BY DEF AccountsInv, AccountsKept, OneRow
<1>4. AccountsTypeOK'
  <2>1. \A x \in Requests : pc'[x] = "idle" <=> pc[x] = "idle"
    BY DEF OthersKept, Settles, Unwinding, Ended
  <2>2. \A x \in Requests : pc'[x] = "idle" <=> job'[x] = NoJob
    BY <1>1, <2>1 DEF AccountsTypeOK, AccountsKept
  <2> QED
    BY <1>1, <2>2 DEF AccountsTypeOK, AccountsKept
<1> QED
  BY <1>2, <1>3, <1>4 DEF AccountsInv

LEMMA AnswerKeepsInv ==
    ASSUME Inv, NEW r \in Requests, Reread(r) \/ Handle(r) \/ Fail(r)
    PROVE  Inv'
<1>1. MiddlewareInv /\ AccountsInv
  BY DEF Inv
<1>2. Unanswered(r) /\ pc[r] # "idle"
  BY DEF Reread, Handle, Fail, Unanswered, HandlerPcs
<1>3. PICK s \in {200, 201, 500} : Respond(r, s) /\ (s = 201 => pc[r] = "reread")
  BY DEF Reread, Handle, Fail
<1>4. AccountsKept
  BY DEF Reread, Handle, Fail, AccountsKept, accounts
<1>5. s \in Statuses
  BY <1>3 DEF Statuses
<1>6. MiddlewareInv' /\ OthersKept(r) /\ pc'[r] = "written" /\ sent'[r] = s
  BY <1>1, <1>2, <1>3, <1>5, RespondKeepsMiddleware
<1>7. Settles(r)
  BY <1>3, <1>6 DEF Settles, Unwinding
<1>8. AccountsInv'
  BY <1>1, <1>2, <1>4, <1>6, <1>7, SettlingKeepsAccounts
<1> QED
  BY <1>6, <1>8 DEF Inv

LEMMA UnwindingKeepsInv ==
    ASSUME Inv, NEW r \in Requests, Return(r) \/ Panic(r) \/ Drop(r), AccountsKept
    PROVE  Inv'
<1>1. MiddlewareInv /\ AccountsInv
  BY DEF Inv
<1>2. CASE Return(r)
  <2>1. MiddlewareInv'
    BY <1>1, <1>2, CountRequestKeepsMiddleware, CountErrorKeepsMiddleware DEF Return
  <2>2. OthersKept(r) /\ pc'[r] \in {"failed", "done"} /\ sent' = sent /\ pc[r] # "idle"
    BY <1>1, <1>2, ReturnMoves DEF Return
  <2>3. Settles(r)
    BY <2>2 DEF Settles, Unwinding, Ended
  <2> QED
    BY <1>1, <2>1, <2>2, <2>3, SettlingKeepsAccounts DEF Inv
<1>3. CASE Panic(r)
  <2>1. /\ MiddlewareInv' /\ OthersKept(r)
        /\ pc'[r] = "recovered" /\ pc[r] # "idle"
        /\ sent'[r] = IF sent[r] = 0 THEN 500 ELSE sent[r]
    BY <1>1, <1>3, PanicKeepsMiddleware
  <2>2. sent'[r] = 500 \/ sent'[r] = sent[r]
    BY <2>1
  <2>3. Settles(r)
    BY <2>1, <2>2 DEF Settles, Unwinding
  <2> QED
    BY <1>1, <2>1, <2>3, SettlingKeepsAccounts DEF Inv
<1>4. CASE Drop(r)
  <2>1. /\ MiddlewareInv' /\ OthersKept(r)
        /\ pc'[r] = "dropped" /\ pc[r] # "idle" /\ sent'[r] = sent[r]
    BY <1>1, <1>4, DropKeepsMiddleware
  <2>2. Settles(r)
    BY <2>1 DEF Settles, Ended
  <2> QED
    BY <1>1, <2>1, <2>2, SettlingKeepsAccounts DEF Inv
<1> QED
  BY <1>2, <1>3, <1>4

(* What an issued token is                                                     *)
LEMMA IssueIsHonest ==
    ASSUME AccountsTypeOK, NEW id \in DOMAIN users
    PROVE  /\ Issue(id) \in Token /\ Issue(id).uid = id
           /\ Issue(id).exp <= Issue(id).expires_at
           /\ Issue(id).expires_at < Issue(id).exp + TicksPerSecond
<1>1. id \in Nat \ {0}
  BY DEF AccountsTypeOK
<1>2. clock + TTL \in Nat
  BY ClockIsNatural DEF AccountsTypeOK
<1>3. /\ NumericDate(clock + TTL) \in Nat
      /\ NumericDate(clock + TTL) <= clock + TTL
      /\ clock + TTL < NumericDate(clock + TTL) + TicksPerSecond
  BY <1>2, NumericDateIsClose
<1> QED
  BY <1>1, <1>2, <1>3 DEF Issue, Token

LEMMA LoginKeepsInv ==
    ASSUME Inv, NEW r \in Requests, Login(r)
    PROVE  Inv'
<1>1. MiddlewareInv /\ AccountsInv /\ AccountsTypeOK /\ RequestFits(r) /\ OneRow
  BY DEF Inv, AccountsInv
<1>2. pc[r] = "lookup" /\ Unanswered(r)
  BY DEF Login, Unanswered, HandlerPcs
<1>3. Asks(r, "login") /\ token[r] = NoToken
  BY <1>1, <1>2 DEF RequestFits, JobFits, TokenFits
<1>4. UNCHANGED <<users, clock, job, actor, at, known>>
  BY DEF Login
<1>5. PICK s \in {200, 401} : Respond(r, s) /\
        \/ /\ s = 200
           /\ \E id \in RowsOf(job[r].email) :
                /\ users[id].secret = job[r].secret
                /\ token' = [token EXCEPT ![r] = Issue(id)]
        \/ /\ s = 401
           /\ \A id \in RowsOf(job[r].email) : users[id].secret # job[r].secret
           /\ UNCHANGED token
  BY DEF Login, PasswordMatches
<1>6. MiddlewareInv' /\ OthersKept(r) /\ pc'[r] = "written" /\ sent'[r] = s
  <2>1. s \in Statuses
    BY <1>5 DEF Statuses
  <2> QED
    BY <1>1, <1>2, <1>5, <2>1, RespondKeepsMiddleware
<1>7. \/ token' = token
      \/ /\ s = 200
         /\ \E id \in RowsOf(job[r].email) :
                users[id].secret = job[r].secret /\ token' = [token EXCEPT ![r] = Issue(id)]
  BY <1>5
<1>8. /\ token' \in [Requests -> Token \union {NoToken}]
      /\ \A x \in Requests : x # r => token'[x] = token[x]
      /\ token'[r] # NoToken => \E id \in RowsOf(job[r].email) :
            users[id].secret = job[r].secret /\ token'[r] = Issue(id)
  <2>1. CASE token' = token
    BY <1>1, <1>3, <2>1 DEF AccountsTypeOK
  <2>2. ASSUME NEW id \in RowsOf(job[r].email), users[id].secret = job[r].secret,
               token' = [token EXCEPT ![r] = Issue(id)]
        PROVE  /\ token' \in [Requests -> Token \union {NoToken}]
               /\ \A x \in Requests : x # r => token'[x] = token[x]
               /\ token'[r] = Issue(id)
    <3>1. Issue(id) \in Token
      BY <1>1, IssueIsHonest DEF RowsOf
    <3> QED
      BY <1>1, <2>2, <3>1 DEF AccountsTypeOK
  <2> QED
    BY <1>7, <2>1, <2>2
<1>9. TokensStay /\ UsersGrow
  BY <1>1, <1>3, <1>4, <1>8, UsersStay DEF TokensStay
<1>10. Asks(r, "login")' /\ ~Asks(r, "register")' /\ ~Asks(r, "use")'
  BY <1>3, <1>4 DEF Asks
<1>11. RequestFits(r)'
  <2>1. JobFits(r)' /\ RowFits(r)'
    BY <1>6, <1>10 DEF JobFits, RowFits
  <2>2. RefusalFits(r)'
    <3>1. ASSUME s = 401, NEW id \in 1 .. known[r], Fold[users[id].email] = Fold[job[r].email]
          PROVE  users[id].secret # job[r].secret
      <4>1. id \in RowsOf(job[r].email)
        BY <1>1, <3>1 DEF AccountsTypeOK, RowsOf
      <4> QED
        BY <1>5, <3>1, <4>1
    <3> QED
      BY <1>4, <1>6, <3>1 DEF RefusalFits
  <2>3. TokenFits(r)'
    <3> SUFFICES ASSUME token'[r] # NoToken
                 PROVE  /\ ~Unanswered(r)'
                        /\ token'[r].uid \in RowsOf(job[r].email)
                        /\ users[token'[r].uid].secret = job[r].secret
                        /\ token'[r].exp <= token'[r].expires_at
                        /\ token'[r].expires_at < token'[r].exp + TicksPerSecond
      BY <1>4, <1>10 DEF TokenFits, RowsOf
    <3>1. PICK id \in RowsOf(job[r].email) :
            users[id].secret = job[r].secret /\ token'[r] = Issue(id)
      BY <1>8
    <3>2. ~Unanswered(r)'
      BY <1>6 DEF Unanswered, HandlerPcs
    <3> QED
      BY <1>1, <3>1, <3>2, IssueIsHonest DEF RowsOf
  <2>4. UseFits(r)' /\ ActorFits(r)'
    <3>1. actor[r] = 0
      BY <1>1, <1>3 DEF RequestFits, ActorFits, Asks
    <3> QED
      BY <1>4, <1>10, <3>1 DEF UseFits, ActorFits
  <2> QED
    BY <2>1, <2>2, <2>3, <2>4 DEF RequestFits
<1>12. ASSUME NEW x \in Requests, x # r
       PROVE  RequestFits(x)'
  <2>1. StandsStill(x)
    BY <1>4, <1>6, <1>8, <1>12 DEF StandsStill, OthersKept
  <2>2. NoRowOf(x)
    BY <1>4 DEF NoRowOf
  <2> QED
    BY <1>1, <1>9, <2>1, <2>2, StillRequestFits
<1>13. AccountsTypeOK'
  <2>1. \A x \in Requests : pc'[x] = "idle" <=> job'[x] = NoJob
    <3>1. job[r] # NoJob /\ pc'[r] # "idle"
      BY <1>3, <1>6 DEF Asks
    <3>2. ASSUME NEW x \in Requests, x # r
          PROVE  pc'[x] = "idle" <=> job[x] = NoJob
      BY <1>1, <1>6, <3>2, OthersStayIdle
    <3> QED
      BY <1>4, <3>1, <3>2
  <2>2. ASSUME NEW x \in Requests, token'[x] # NoToken
        PROVE  token'[x].uid <= Len(users)
    <3>1. CASE x = r
      <4>1. PICK id \in RowsOf(job[r].email) : token'[r] = Issue(id)
        BY <1>8, <2>2, <3>1
      <4> QED
        BY <1>1, <3>1, <4>1, IssueIsHonest DEF RowsOf, AccountsTypeOK
    <3>2. CASE x # r
      BY <1>1, <1>8, <2>2, <3>2 DEF AccountsTypeOK
    <3> QED
      BY <3>1, <3>2
  <2> QED
    BY <1>1, <1>4, <1>8, <2>1, <2>2 DEF AccountsTypeOK
<1>14. OneRow'
  BY <1>1, <1>4 DEF OneRow
<1> QED
  BY <1>6, <1>11, <1>12, <1>13, <1>14 DEF Inv, AccountsInv

LEMMA ConflictKeepsInv ==
    ASSUME Inv, NEW r \in Requests, pc[r] = "insert", DuplicateKey(job[r].email),
           Respond(r, 409), AccountsKept
    PROVE  Inv'
<1>1. MiddlewareInv /\ AccountsInv /\ AccountsTypeOK /\ RequestFits(r) /\ OneRow
  BY DEF Inv, AccountsInv
<1>2. Unanswered(r)
  BY DEF Unanswered, HandlerPcs
<1>3. MiddlewareInv' /\ OthersKept(r) /\ pc'[r] = "written" /\ sent'[r] = 409
  BY <1>1, <1>2, RespondKeepsMiddleware DEF Statuses
<1>4. Asks(r, "register") /\ actor[r] = 0 /\ token[r] = NoToken
  BY <1>1, <1>2 DEF RequestFits, JobFits, TokenFits, ActorFits, Asks
<1> USE DEF AccountsKept
<1>5. Asks(r, "register")' /\ ~Asks(r, "login")' /\ ~Asks(r, "use")'
  BY <1>4 DEF Asks
<1>6. RequestFits(r)'
  <2>1. PICK id \in RowsOf(job[r].email) : TRUE
    BY DEF DuplicateKey
  <2>2. users[id].by # r
    BY <1>1, <2>1 DEF RequestFits, RowFits, RowsOf
  <2>3. \E k \in RowsOf(job[r].email)' : users'[k].by # r
    BY <2>1, <2>2 DEF RowsOf
  <2>4. RowFits(r)'
    BY <1>3, <2>3 DEF RowFits
  <2>5. JobFits(r)' /\ RefusalFits(r)' /\ TokenFits(r)' /\ UseFits(r)' /\ ActorFits(r)'
    BY <1>3, <1>4, <1>5 DEF JobFits, RefusalFits, TokenFits, UseFits, ActorFits
  <2> QED
    BY <2>4, <2>5 DEF RequestFits
<1>7. ASSUME NEW x \in Requests, x # r
      PROVE  RequestFits(x)'
  <2>1. StandsStill(x)
    BY <1>3, <1>7 DEF StandsStill, OthersKept
  <2>2. UsersGrow /\ TokensStay /\ NoRowOf(x)
    BY <1>1, UsersStay DEF TokensStay, NoRowOf
  <2> QED
    BY <1>1, <2>1, <2>2, StillRequestFits
<1>8. AccountsTypeOK'
  <2>1. job[r] # NoJob
    BY <1>4 DEF Asks
  <2>2. \A x \in Requests : pc'[x] = "idle" <=> job'[x] = NoJob
    <3>1. ASSUME NEW x \in Requests, x # r
          PROVE  pc'[x] = "idle" <=> job[x] = NoJob
      BY <1>1, <1>3, <3>1, OthersStayIdle
    <3> QED
      BY <1>3, <2>1, <3>1
  <2> QED
    BY <1>1, <2>2 DEF AccountsTypeOK
<1>9. OneRow'
  BY <1>1 DEF OneRow
<1> QED
  BY <1>3, <1>6, <1>7, <1>8, <1>9 DEF Inv, AccountsInv

(* The row is inserted, whether that is confirmed or not.                      *)
LEMMA InsertKeepsInv ==
    ASSUME Inv, NEW r \in Requests, pc[r] = "insert", ~DuplicateKey(job[r].email),
           AddUser(r), UNCHANGED <<clock, job, token, actor, at, known>>,
           MovesOn(r, "reread") \/ Respond(r, 500)
    PROVE  Inv'
<1>1. MiddlewareInv /\ AccountsInv /\ AccountsTypeOK /\ RequestFits(r) /\ OneRow
  BY DEF Inv, AccountsInv
<1>2. Unanswered(r)
  BY DEF Unanswered, HandlerPcs
<1>3. MiddlewareInv' /\ OthersKept(r)
  BY <1>1, <1>2, RespondKeepsMiddleware, GotoKeepsMiddleware DEF Statuses, HandlerPcs
<1>4. sent[r] = 0
  BY <1>1, <1>2 DEF MiddlewareInv, LoggingIsSound
<1>5. (pc'[r] = "reread" /\ sent'[r] = 0) \/ (pc'[r] = "written" /\ sent'[r] = 500)
  BY <1>1, <1>2, <1>4, RespondKeepsMiddleware, GotoKeepsMiddleware DEF Statuses, HandlerPcs
<1>6. /\ Asks(r, "register") /\ actor[r] = 0 /\ token[r] = NoToken
      /\ job[r].email \in Emails /\ job[r].secret \in Passwords
  BY <1>1, <1>2 DEF RequestFits, JobFits, TokenFits, ActorFits, Asks
<1>7. /\ UsersGrow /\ users' \in Seq(User)
      /\ Len(users') = Len(users) + 1
      /\ users'[Len(users')] = [email |-> job[r].email, secret |-> job[r].secret, by |-> r]
  BY <1>1, <1>6, InsertGrows
<1>8. /\ users'[Len(users')].email = job[r].email /\ users'[Len(users')].by = r
      /\ Len(users') \in DOMAIN users'
      /\ \A id \in DOMAIN users' : id \in DOMAIN users \/ id = Len(users')
      /\ Len(users') \notin DOMAIN users
  BY <1>7 DEF UsersGrow
<1>9. Asks(r, "register")' /\ ~Asks(r, "login")' /\ ~Asks(r, "use")'
  BY <1>6 DEF Asks
<1>10. RequestFits(r)'
  <2>1. \E k \in RowsOf(job[r].email)' : users'[k].by = r
    BY <1>8 DEF RowsOf
  <2>2. RowFits(r)'
    BY <1>5, <2>1 DEF RowFits
  <2>3. JobFits(r)'
    BY <1>5, <1>6, <1>9 DEF JobFits
  <2>4. RefusalFits(r)' /\ TokenFits(r)' /\ UseFits(r)' /\ ActorFits(r)'
    BY <1>6, <1>9 DEF RefusalFits, TokenFits, UseFits, ActorFits
  <2> QED
    BY <2>2, <2>3, <2>4 DEF RequestFits
<1>11. ASSUME NEW x \in Requests, x # r
       PROVE  RequestFits(x)'
  <2>1. StandsStill(x)
    BY <1>3, <1>11 DEF StandsStill, OthersKept
  <2>2. TokensStay /\ NoRowOf(x)
    BY <1>8, <1>11 DEF TokensStay, NoRowOf
  <2> QED
    BY <1>1, <1>7, <2>1, <2>2, StillRequestFits
<1>12. OneRow'
  <2> SUFFICES ASSUME NEW i \in DOMAIN users', NEW k \in DOMAIN users',
                      Fold[users'[i].email] = Fold[users'[k].email], i # k
               PROVE  FALSE
    BY DEF OneRow
  <2>1. \A id \in DOMAIN users :
           users'[id] = users[id] /\ Fold[users[id].email] # Fold[job[r].email]
    BY <1>7 DEF UsersGrow, DuplicateKey, RowsOf
  <2>2. CASE i \in DOMAIN users /\ k \in DOMAIN users
    BY <1>1, <2>1, <2>2 DEF OneRow
  <2>3. CASE i = Len(users') \/ k = Len(users')
    BY <1>8, <2>1, <2>3
  <2> QED
    BY <1>8, <2>2, <2>3
<1>13. AccountsTypeOK'
  <2>1. job[r] # NoJob /\ pc'[r] # "idle"
    BY <1>5, <1>6 DEF Asks
  <2>2. \A x \in Requests : pc'[x] = "idle" <=> job'[x] = NoJob
    <3>1. ASSUME NEW x \in Requests, x # r
          PROVE  pc'[x] = "idle" <=> job[x] = NoJob
      BY <1>1, <1>3, <3>1, OthersStayIdle
    <3> QED
      BY <2>1, <3>1
  <2>3. 0 .. Len(users) \subseteq 0 .. Len(users') /\ Len(users) \in Nat /\ Len(users') \in Nat
    BY <1>7 DEF UsersGrow
  <2>4. actor' \in [Requests -> 0 .. Len(users')] /\ known' \in [Requests -> 0 .. Len(users')]
    BY <1>1, <2>3 DEF AccountsTypeOK
  <2>5. ASSUME NEW x \in Requests, token[x] # NoToken
        PROVE  token[x].uid <= Len(users')
    <3>1. token[x].uid <= Len(users) /\ token[x].uid \in Nat
      BY <1>1, <2>5 DEF AccountsTypeOK, Token
    <3> QED
      BY <1>7, <2>3, <3>1
  <2> QED
    BY <1>1, <1>7, <2>2, <2>4, <2>5 DEF AccountsTypeOK
<1> QED
  BY <1>3, <1>10, <1>11, <1>12, <1>13 DEF Inv, AccountsInv


LEMMA InsertUserKeepsInv ==
    ASSUME Inv, NEW r \in Requests, InsertUser(r) \/ InsertUnconfirmed(r)
    PROVE  Inv'
<1>1. pc[r] = "insert" /\ UNCHANGED <<clock, job, token, actor, at, known>>
  BY DEF InsertUser, InsertUnconfirmed
<1>2. \/ DuplicateKey(job[r].email) /\ Respond(r, 409) /\ UNCHANGED users
      \/ /\ ~DuplicateKey(job[r].email) /\ AddUser(r)
         /\ MovesOn(r, "reread") \/ Respond(r, 500)
  BY DEF InsertUser, InsertUnconfirmed, MovesOn
<1>3. CASE DuplicateKey(job[r].email) /\ Respond(r, 409) /\ UNCHANGED users
  BY <1>1, <1>3, ConflictKeepsInv DEF AccountsKept
<1>4. CASE /\ ~DuplicateKey(job[r].email) /\ AddUser(r)
           /\ MovesOn(r, "reread") \/ Respond(r, 500)
  BY <1>1, <1>4, InsertKeepsInv
<1> QED
  BY <1>2, <1>3, <1>4

(* What the router makes of a request: an answer of the middleware, or the     *)
(* first step of its handler, and with a valid token a user id.                *)
Routed(r, j) ==
    /\ \/ \E s \in {400, 401, 404, 429} :
             Respond(r, s) /\ (s = 401 => j.op = "use" /\ ~Parse(j.token))
       \/ \E where \in {"insert", "lookup", "handle"} :
             /\ MovesOn(r, where)
             /\ where = "insert" => j.op = "register" /\ j.email \in Emails /\ j.secret \in Passwords
             /\ where = "lookup" => j.op = "login" /\ j.email \in Emails
             /\ where = "handle" => j.op = "use"
    /\ \/ UNCHANGED actor
       \/ /\ j.op = "use" /\ Parse(j.token)
          /\ actor' = [actor EXCEPT ![r] = token[j.token].uid]

LEMMA RouteRoutes ==
    ASSUME NEW r \in Requests, NEW j \in AllJobs, Route(r, j)
    PROVE  Routed(r, j)
<1>1. CASE j.op = "unmatched" /\ Respond(r, 404) /\ UNCHANGED actor
  BY <1>1 DEF Routed
<1>2. CASE /\ j.op \in {"register", "login"} /\ UNCHANGED actor
           /\ Respond(r, 429) \/ Respond(r, 400)
  BY <1>2 DEF Routed
<1>3. CASE /\ j.op = "register" /\ UNCHANGED actor /\ Valid(j) /\ MovesOn(r, "insert")
  BY <1>3 DEF Routed, Valid
<1>4. CASE /\ j.op = "login" /\ UNCHANGED actor /\ Valid(j) /\ MovesOn(r, "lookup")
  BY <1>4 DEF Routed, Valid
<1>5. CASE j.op = "use" /\ ~Parse(j.token) /\ Respond(r, 401) /\ UNCHANGED actor
  BY <1>5 DEF Routed
<1>6. CASE /\ j.op = "use" /\ Parse(j.token)
           /\ actor' = [actor EXCEPT ![r] = token[j.token].uid]
           /\ Respond(r, 429) \/ MovesOn(r, "handle")
  BY <1>6 DEF Routed
<1> QED
  BY <1>1, <1>2, <1>3, <1>4, <1>5, <1>6 DEF Route, MovesOn

(* What a request is after it has arrived                                      *)
Arrived(r, j) ==
    /\ job'[r] = j /\ token'[r] = NoToken
    /\ sent'[r] \in {0, 400, 401, 404, 429}
    /\ sent'[r] = 401 => j.op = "use" /\ ~Parse(j.token)
    /\ pc'[r] \in {"written", "insert", "lookup", "handle"}
    /\ pc'[r] = "insert" => j.op = "register" /\ j.email \in Emails /\ j.secret \in Passwords
    /\ pc'[r] = "lookup" => j.op = "login" /\ j.email \in Emails
    /\ pc'[r] = "handle" => j.op = "use"
    /\ j.op = "use" => at'[r] = clock
    /\ actor'[r] # 0 => j.op = "use" /\ Parse(j.token) /\ actor'[r] = token[j.token].uid

LEMMA ArriveMoves ==
    ASSUME Inv, NEW r \in Requests, NEW j \in AllJobs, Arrive(r, j)
    PROVE  /\ MiddlewareInv' /\ OthersKept(r) /\ Arrived(r, j)
           /\ \A x \in Requests : x # r => StandsStill(x)
           /\ UNCHANGED <<users, token, clock>>
           /\ actor[r] = 0 /\ pc[r] = "idle"
<1>1. MiddlewareInv /\ AccountsTypeOK /\ RequestFits(r)
  BY DEF Inv, AccountsInv
<1>2. pc[r] = "idle" /\ Unanswered(r) /\ Routed(r, j) /\ UNCHANGED <<users, token, clock>>
  BY RouteRoutes DEF Arrive, Unanswered, accounts
<1>3. job[r] = NoJob /\ sent[r] = 0
  BY <1>1, <1>2 DEF AccountsTypeOK, MiddlewareInv, LoggingIsSound
<1>4. actor[r] = 0 /\ token[r] = NoToken
  BY <1>1, <1>3 DEF RequestFits, ActorFits, TokenFits, Asks
<1>5. /\ MiddlewareInv' /\ OthersKept(r)
      /\ \/ /\ pc'[r] = "written" /\ sent'[r] \in {400, 401, 404, 429}
            /\ sent'[r] = 401 => j.op = "use" /\ ~Parse(j.token)
         \/ /\ sent'[r] = 0 /\ pc'[r] \in {"insert", "lookup", "handle"}
            /\ pc'[r] = "insert" =>
                  j.op = "register" /\ j.email \in Emails /\ j.secret \in Passwords
            /\ pc'[r] = "lookup" => j.op = "login" /\ j.email \in Emails
            /\ pc'[r] = "handle" => j.op = "use"
  <2>1. ASSUME NEW s \in {400, 401, 404, 429}, Respond(r, s)
        PROVE  MiddlewareInv' /\ OthersKept(r) /\ pc'[r] = "written" /\ sent'[r] = s
    <3>1. s \in Statuses
      BY DEF Statuses
    <3> QED
      BY <1>1, <1>2, <2>1, <3>1, RespondKeepsMiddleware
  <2>2. ASSUME NEW where \in {"insert", "lookup", "handle"}, MovesOn(r, where)
        PROVE  MiddlewareInv' /\ OthersKept(r) /\ pc'[r] = where /\ sent'[r] = 0
    <3>1. where \in HandlerPcs
      BY DEF HandlerPcs
    <3> QED
      BY <1>1, <1>2, <1>3, <2>2, <3>1, GotoKeepsMiddleware
  <2> QED
    BY <1>2, <2>1, <2>2 DEF Routed
<1>6. /\ job' = [job EXCEPT ![r] = j]
      /\ at' = [at EXCEPT ![r] = IF j.op = "use" THEN clock ELSE 0]
      /\ known' = [known EXCEPT ![r] = IF j.op = "login" THEN Len(users) ELSE 0]
  BY DEF Arrive
<1>7. /\ job'[r] = j /\ (j.op = "use" => at'[r] = clock)
      /\ \A x \in Requests : x # r => job'[x] = job[x] /\ at'[x] = at[x] /\ known'[x] = known[x]
  BY <1>1, <1>6 DEF AccountsTypeOK
<1>8. /\ actor'[r] # 0 => j.op = "use" /\ Parse(j.token) /\ actor'[r] = token[j.token].uid
      /\ \A x \in Requests : x # r => actor'[x] = actor[x]
  <2>1. CASE UNCHANGED actor
    BY <1>4, <2>1
  <2>2. CASE /\ j.op = "use" /\ Parse(j.token)
             /\ actor' = [actor EXCEPT ![r] = token[j.token].uid]
    BY <1>1, <2>2 DEF AccountsTypeOK
  <2> QED
    BY <1>2, <2>1, <2>2 DEF Routed
<1>9. Arrived(r, j)
  BY <1>2, <1>4, <1>5, <1>7, <1>8 DEF Arrived
<1>10. \A x \in Requests : x # r => StandsStill(x)
  BY <1>2, <1>5, <1>7, <1>8 DEF StandsStill, OthersKept
<1> QED
  BY <1>2, <1>4, <1>5, <1>9, <1>10

LEMMA ArrivedRequestFits ==
    ASSUME Inv, NEW r \in Requests, NEW j \in AllJobs, Arrive(r, j),
           Arrived(r, j), UNCHANGED <<users, token, clock>>
    PROVE  RequestFits(r)'
<1>1. AccountsTypeOK /\ RequestFits(r) /\ pc[r] = "idle" /\ j # NoJob
  BY JobIsShaped DEF Inv, AccountsInv, Arrive
<1>2. /\ Asks(r, "register")' = (j.op = "register") /\ Asks(r, "login")' = (j.op = "login")
      /\ Asks(r, "use")' = (j.op = "use") /\ job'[r] = j
  BY <1>1 DEF Asks, Arrived
<1>3. JobFits(r)'
  <2>1. pc'[r] = "insert" => j.op = "register" /\ j.email \in Emails /\ j.secret \in Passwords
    BY DEF Arrived
  <2>2. pc'[r] = "lookup" => j.op = "login" /\ j.email \in Emails
    BY DEF Arrived
  <2>3. pc'[r] = "handle" => j.op = "use"
    BY DEF Arrived
  <2>4. pc'[r] # "reread"
    BY DEF Arrived
  <2> QED
    BY <1>2, <2>1, <2>2, <2>3, <2>4 DEF JobFits
<1>4. RowFits(r)'
  BY <1>1 DEF Arrived, RequestFits, RowFits
<1>5. RefusalFits(r)' /\ TokenFits(r)'
  BY <1>2 DEF Arrived, RefusalFits, TokenFits
<1>6. ASSUME j.op = "use", j.token # Junk
      PROVE  /\ j.token \in Requests /\ token[j.token] # NoToken
             /\ token[j.token].exp \in Nat /\ clock \in Nat
  <2>1. j.token \in Requests /\ token[j.token] # NoToken
    BY <1>6, JobIsShaped DEF Arrive
  <2>2. token[j.token] \in Token
    BY <1>1, <2>1 DEF AccountsTypeOK
  <2> QED
    BY <1>1, <2>1, <2>2, ClockIsNatural DEF Token, AccountsTypeOK
<1>7. UseFits(r)'
  <2>1. ASSUME j.op = "use", j.token # Junk, sent'[r] = 401
        PROVE  token[j.token].exp <= at'[r]
    <3>1. ~(clock < token[j.token].exp) /\ at'[r] = clock
      BY <1>6, <2>1 DEF Arrived, Parse
    <3> QED
      BY <1>6, <2>1, <3>1
  <2> QED
    BY <1>2, <1>6, <2>1 DEF UseFits
<1>8. ActorFits(r)'
  <2>1. ASSUME actor'[r] # 0
        PROVE  /\ j.op = "use" /\ j.token # Junk /\ actor'[r] = token[j.token].uid
               /\ at'[r] < token[j.token].exp
    BY <2>1 DEF Arrived, Parse
  <2> QED
    BY <1>2, <2>1 DEF ActorFits
<1> QED
  BY <1>3, <1>4, <1>5, <1>7, <1>8 DEF RequestFits

LEMMA ArriveKeepsInv ==
    ASSUME Inv, NEW r \in Requests, NEW j \in AllJobs, Arrive(r, j)
    PROVE  Inv'
<1>1. AccountsInv /\ AccountsTypeOK /\ OneRow
  BY DEF Inv, AccountsInv
<1>2. /\ MiddlewareInv' /\ OthersKept(r) /\ Arrived(r, j)
      /\ \A x \in Requests : x # r => StandsStill(x)
      /\ UNCHANGED <<users, token, clock>>
  BY ArriveMoves
<1>3. RequestFits(r)'
  BY <1>2, ArrivedRequestFits
<1>4. ASSUME NEW x \in Requests, x # r
      PROVE  RequestFits(x)'
  <2>1. UsersGrow /\ TokensStay /\ NoRowOf(x)
    BY <1>1, <1>2, UsersStay DEF TokensStay, NoRowOf
  <2> QED
    BY <1>1, <1>2, <1>4, <2>1, StillRequestFits
<1>5. OneRow'
  BY <1>1, <1>2 DEF OneRow
<1>6. AccountsTypeOK'
  <2>1. \A x \in Requests : pc'[x] = "idle" <=> job'[x] = NoJob
    <3>1. job'[r] # NoJob /\ pc'[r] # "idle"
      BY <1>2, JobIsShaped DEF Arrived
    <3>2. ASSUME NEW x \in Requests, x # r
          PROVE  pc'[x] = "idle" <=> job'[x] = NoJob
      <4>1. job'[x] = job[x]
        BY <1>2, <3>2 DEF StandsStill
      <4> QED
        BY <1>1, <1>2, <3>2, <4>1, OthersStayIdle
    <3> QED
      BY <3>1, <3>2
  <2>2. clock \in 0 .. LastTick /\ 0 \in 0 .. LastTick
    BY <1>1, ClockIsNatural DEF AccountsTypeOK
  <2>3. Len(users) \in 0 .. Len(users) /\ 0 \in 0 .. Len(users)
    BY <1>1 DEF AccountsTypeOK
  <2>4. job' \in [Requests -> AllJobs \union {NoJob}]
    BY <1>1 DEF AccountsTypeOK, Arrive
  <2>5. at' \in [Requests -> 0 .. LastTick]
    BY <1>1, <2>2 DEF AccountsTypeOK, Arrive
  <2>6. known' \in [Requests -> 0 .. Len(users)]
    BY <1>1, <2>3 DEF AccountsTypeOK, Arrive
  <2>7. actor' \in [Requests -> 0 .. Len(users)]
    <3>1. ASSUME j.op = "use", Parse(j.token)
          PROVE  token[j.token].uid \in 0 .. Len(users)
      <4>1. j.token \in Requests /\ token[j.token] # NoToken
        BY <3>1, JobIsShaped DEF Parse
      <4>2. token[j.token].uid <= Len(users) /\ token[j.token] \in Token
        BY <1>1, <4>1 DEF AccountsTypeOK
      <4>3. Len(users) \in Nat
        BY <1>1 DEF AccountsTypeOK
      <4> QED
        BY <4>2, <4>3 DEF Token
    <3>2. Routed(r, j)
      BY RouteRoutes DEF Arrive
    <3> QED
      BY <1>1, <3>1, <3>2 DEF AccountsTypeOK, Routed
  <2> QED
    BY <1>1, <1>2, <2>1, <2>4, <2>5, <2>6, <2>7 DEF AccountsTypeOK
<1> QED
  BY <1>2, <1>3, <1>4, <1>5, <1>6 DEF Inv, AccountsInv

LEMMA MiddlewareStays ==
    ASSUME MiddlewareInv, UNCHANGED middleware
    PROVE  MiddlewareInv'
<1> USE DEF middleware
<1>1. MiddlewareTypeOK(HandlerPcs)'
  BY DEF MiddlewareInv, MiddlewareTypeOK
<1>2. ASSUME NEW x \in Requests
      PROVE  LoggingIsSound(x)'
  BY DEF MiddlewareInv, LoggingIsSound, Unanswered
<1>3. \A s \in Statuses : Pending(s)' \subseteq Pending(s)
  BY DEF Pending
<1>4. \A s \in Statuses : SeriesAreSound(s)'
  BY <1>3, SeriesStay
<1> QED
  BY <1>1, <1>2, <1>4 DEF MiddlewareInv

(* Only the clock moves, or nothing does.                                      *)
LEMMA ClockKeepsInv ==
    ASSUME Inv, UNCHANGED <<middleware, accounts, job, actor, at, known>>,
           clock' \in 0 .. LastTick
    PROVE  Inv'
<1>1. UNCHANGED <<pc, sent, users, token, job, actor, at, known>>
  BY DEF middleware, accounts
<1>2. MiddlewareInv'
  BY MiddlewareStays DEF Inv
<1>3. ASSUME NEW x \in Requests
      PROVE  RequestFits(x)'
  <2>1. StandsStill(x)
    BY <1>1 DEF StandsStill
  <2>2. UsersGrow /\ TokensStay /\ NoRowOf(x)
    BY <1>1, UsersStay DEF Inv, AccountsInv, TokensStay, NoRowOf
  <2> QED
    BY <2>1, <2>2, StillRequestFits DEF Inv
<1>4. AccountsTypeOK' /\ OneRow'
  BY <1>1 DEF Inv, AccountsInv, AccountsTypeOK, OneRow
<1> QED
  BY <1>2, <1>3, <1>4 DEF Inv, AccountsInv

LEMMA InitInv ==
    ASSUME Init
    PROVE  Inv
<1>1. users = << >> /\ Len(users) = 0 /\ DOMAIN users = {}
  BY DEF Init
<1>2. MiddlewareTypeOK(HandlerPcs)
  <2>1. /\ pc \in [Requests -> {"idle"} \union HandlerPcs \union Unwinding \union Ended]
        /\ sent \in [Requests -> Statuses \union {0}] /\ recorded \in [Requests -> Statuses]
    BY DEF Init, MiddlewareInit, Statuses
  <2>2. /\ requestsTotal \in [Statuses -> Nat] /\ errorsTotal \in [Statuses -> Nat]
        /\ accessLog \in [Requests -> Statuses \union {0}] /\ late \in [Requests -> BOOLEAN]
    BY DEF Init, MiddlewareInit
  <2> QED
    BY <2>1, <2>2 DEF MiddlewareTypeOK
<1>3. ASSUME NEW x \in Requests
      PROVE  /\ pc[x] = "idle" /\ sent[x] = 0 /\ late[x] = FALSE /\ accessLog[x] = 0
             /\ job[x] = NoJob /\ token[x] = NoToken /\ actor[x] = 0
  BY DEF Init, MiddlewareInit
<1>4. ASSUME NEW x \in Requests
      PROVE  LoggingIsSound(x)
  BY <1>3 DEF LoggingIsSound, Unwinding
<1>5. ASSUME NEW s \in Statuses
      PROVE  SeriesAreSound(s)
  <2>1. Logged(s) = {} /\ Pending(s) = {}
    <3>1. s # 0
      BY DEF Statuses
    <3>2. \A x \in Requests : accessLog[x] # s /\ pc[x] # "failed"
      BY <1>3, <3>1
    <3> QED
      BY <3>2 DEF Logged, Pending
  <2>2. requestsTotal[s] = 0 /\ errorsTotal[s] = 0
    BY DEF Init, MiddlewareInit
  <2> QED
    BY <2>1, <2>2, FS_EmptySet DEF SeriesAreSound
<1>6. ASSUME NEW x \in Requests
      PROVE  RequestFits(x)
  <2>1. ~Asks(x, "register") /\ ~Asks(x, "login") /\ ~Asks(x, "use")
    BY <1>3 DEF Asks
  <2> QED
    BY <1>1, <1>3, <2>1
       DEF RequestFits, JobFits, RowFits, RefusalFits, TokenFits, UseFits, ActorFits
<1>7. AccountsTypeOK
  <2>1. users \in Seq(User) /\ clock \in 0 .. LastTick
    BY ClockIsNatural DEF Init
  <2>2. job \in [Requests -> AllJobs \union {NoJob}] /\ token \in [Requests -> Token \union {NoToken}]
    BY DEF Init
  <2>3. /\ actor \in [Requests -> 0 .. Len(users)] /\ known \in [Requests -> 0 .. Len(users)]
        /\ at \in [Requests -> 0 .. LastTick]
    BY <1>1, ClockIsNatural DEF Init
  <2> QED
    BY <1>3, <2>1, <2>2, <2>3 DEF AccountsTypeOK
<1>8. OneRow
  BY <1>1 DEF OneRow
<1> QED
  BY <1>2, <1>4, <1>5, <1>6, <1>7, <1>8 DEF Inv, MiddlewareInv, AccountsInv

LEMMA StepInv ==
    ASSUME Inv, [Next]_vars
    PROVE  Inv'
<1>1. ASSUME NEW r \in Requests, NEW j \in Jobs[r], Arrive(r, j)
      PROVE  Inv'
  <2>1. j \in AllJobs
    BY JobsAreJobs
  <2> QED
    BY <1>1, <2>1, ArriveKeepsInv
<1>2. ASSUME NEW r \in Requests, Serve(r)
      PROVE  Inv'
  <2>1. CASE InsertUser(r) \/ InsertUnconfirmed(r)
    BY <2>1, InsertUserKeepsInv
  <2>2. CASE Reread(r) \/ Handle(r) \/ Fail(r)
    BY <2>2, AnswerKeepsInv
  <2>3. CASE Login(r)
    BY <2>3, LoginKeepsInv
  <2>4. CASE Return(r) /\ UNCHANGED <<accounts, clock, job, actor, at, known>>
    BY <2>4, UnwindingKeepsInv DEF AccountsKept, accounts
  <2> QED
    BY <1>2, <2>1, <2>2, <2>3, <2>4 DEF Serve
<1>3. ASSUME NEW r \in Requests, Panic(r) \/ Drop(r),
             UNCHANGED <<accounts, clock, job, actor, at, known>>
      PROVE  Inv'
  BY <1>3, UnwindingKeepsInv DEF AccountsKept, accounts
<1>4. CASE Tick
  <2>1. clock' \in 0 .. LastTick
    BY <1>4, ClockIsNatural DEF Inv, AccountsInv, AccountsTypeOK, Tick
  <2> QED
    BY <1>4, <2>1, ClockKeepsInv DEF Tick
<1>5. CASE UNCHANGED vars
  <2>1. clock' \in 0 .. LastTick
    BY <1>5 DEF Inv, AccountsInv, AccountsTypeOK, vars
  <2> QED
    BY <1>5, <2>1, ClockKeepsInv DEF vars
<1> QED
  BY <1>1, <1>2, <1>3, <1>4, <1>5 DEF Next

LEMMA InvHolds == Spec => []Inv
<1>1. Init => Inv
  BY InitInv
<1>2. Inv /\ [Next]_vars => Inv'
  BY StepInv
<1> QED
  BY <1>1, <1>2, PTL DEF Spec

-------------------------------------------------------------------------------

(* The state keeps its types.                                                  *)
THEOREM Typing == Spec => []TypeOK
<1>1. Inv => TypeOK
  BY DEF Inv, MiddlewareInv, AccountsInv, AccountsTypeOK, TypeOK
<1> QED
  BY <1>1, InvHolds, PTL

(* However many registrations of one address race, in whatever spellings, and  *)
(* whichever of them lose their answers: one row comes of it, 201 is for who   *)
(* inserted it and 409 for who did not.                                        *)
THEOREM OneAccountPerAddress == Spec => []RegistrationHolds
<1>1. Inv => RegistrationHolds
  <2> SUFFICES ASSUME Inv
               PROVE  RegistrationHolds
    OBVIOUS
  <2>1. \A r \in Requests : RowFits(r)
    BY DEF Inv, AccountsInv, RequestFits
  <2> QED
    BY <2>1 DEF Inv, AccountsInv, RowFits, OneRow, RegistrationHolds
<1> QED
  BY <1>1, InvHolds, PTL

(* No login with the right password is refused to somebody who had an account  *)
(* when she asked, and every token is for the account whose address and        *)
(* password it was asked with.                                                 *)
THEOREM LoginsAreExact == Spec => []LoginIsExact
<1>1. Inv => LoginIsExact
  <2> SUFFICES ASSUME Inv
               PROVE  LoginIsExact
    OBVIOUS
  <2>1. \A r \in Requests : RefusalFits(r) /\ TokenFits(r)
    BY DEF Inv, AccountsInv, RequestFits
  <2> QED
    BY <2>1 DEF RefusalFits, TokenFits, LoginIsExact
<1> QED
  BY <1>1, InvHolds, PTL

(* The user id behind Auth is a row of users, the one its token was issued     *)
(* for, and the token was good when the request came.                          *)
THEOREM TokensNameTheirUsers == Spec => []ActorsAreRegistered
<1>1. Inv => ActorsAreRegistered
  <2> SUFFICES ASSUME Inv, NEW r \in Requests, actor[r] # 0
               PROVE  /\ actor[r] \in RowsOf(job[job[r].token].email)
                      /\ at[r] < token[job[r].token].expires_at
    BY DEF ActorsAreRegistered
  <2>1. AccountsTypeOK /\ ActorFits(r) /\ UseFits(r)
    BY DEF Inv, AccountsInv, RequestFits
  <2> DEFINE t == job[r].token
  <2>2. /\ t \in Requests /\ token[t] # NoToken
        /\ actor[r] = token[t].uid /\ at[r] < token[t].exp
    BY <2>1 DEF ActorFits, UseFits
  <2> HIDE DEF t
  <2>3. token[t].uid \in RowsOf(job[t].email) /\ token[t].exp <= token[t].expires_at
    BY <2>2 DEF Inv, AccountsInv, RequestFits, TokenFits
  <2>4. token[t].exp \in Nat /\ token[t].expires_at \in Nat /\ at[r] \in Nat
    <3>1. token[t] \in Token
      BY <2>1, <2>2 DEF AccountsTypeOK
    <3>2. at[r] \in 0 .. LastTick
      BY <2>1 DEF AccountsTypeOK
    <3> QED
      BY <3>1, <3>2 DEF Token
  <2>5. at[r] < token[t].expires_at
    BY <2>2, <2>3, <2>4
  <2> QED
    BY <2>2, <2>3, <2>5 DEF t
<1> QED
  BY <1>1, InvHolds, PTL

(* A token is not refused before the second its expires_at falls in.           *)
THEOREM ExpiryIsKept == Spec => []ExpiryIsHonest
<1>1. Inv => ExpiryIsHonest
  <2> SUFFICES ASSUME Inv, NEW r \in Requests,
                      Asks(r, "use"), job[r].token # Junk, sent[r] = 401
               PROVE  at[r] > token[job[r].token].expires_at - TicksPerSecond
    BY DEF ExpiryIsHonest
  <2>1. AccountsTypeOK /\ UseFits(r)
    BY DEF Inv, AccountsInv, RequestFits
  <2> DEFINE t == job[r].token
  <2>2. t \in Requests /\ token[t] # NoToken /\ token[t].exp <= at[r]
    BY <2>1 DEF UseFits
  <2> HIDE DEF t
  <2>3. token[t].expires_at < token[t].exp + TicksPerSecond
    BY <2>2 DEF Inv, AccountsInv, RequestFits, TokenFits
  <2>4. token[t].exp \in Nat /\ token[t].expires_at \in Nat /\ at[r] \in Nat
    <3>1. token[t] \in Token
      BY <2>1, <2>2 DEF AccountsTypeOK
    <3>2. at[r] \in 0 .. LastTick
      BY <2>1 DEF AccountsTypeOK
    <3> QED
      BY <3>1, <3>2 DEF Token
  <2>5. at[r] > token[t].expires_at - TicksPerSecond
    BY <2>2, <2>3, <2>4, ClockIsNatural
  <2> QED
    BY <2>5 DEF t
<1> QED
  BY <1>1, InvHolds, PTL

(* Every request that ends was answered, and its log line has the status on    *)
(* the wire, but for a panic after the header, for which it has 500.           *)
THEOREM LogTellsTheTruth == Spec => []LogIsTrue
<1>1. Inv => LogIsTrue
  <2> SUFFICES ASSUME Inv, NEW r \in Requests, pc[r] = "done"
               PROVE  sent[r] # 0 /\ accessLog[r] = IF late[r] THEN 500 ELSE sent[r]
    BY DEF LogIsTrue
  <2> QED
    BY DEF Inv, MiddlewareInv, LoggingIsSound
<1> QED
  BY <1>1, InvHolds, PTL

(* The request series has every line of the log, and the error series every    *)
(* server error of it and nothing the request series has not.                  *)
THEOREM SeriesAgreeWithTheLog == Spec => []SeriesMatchTheLog
<1>1. Inv => SeriesMatchTheLog
  <2> SUFFICES ASSUME Inv, NEW s \in Statuses
               PROVE  /\ Cardinality(Logged(s)) <= requestsTotal[s]
                      /\ errorsTotal[s] \in IF s >= 500
                                            THEN Cardinality(Logged(s)) .. requestsTotal[s]
                                            ELSE {0}
    BY DEF SeriesMatchTheLog, Logged
  <2>1. /\ s \in Nat /\ requestsTotal[s] \in Nat /\ errorsTotal[s] \in Nat
        /\ Cardinality(Logged(s)) \in Nat /\ Cardinality(Pending(s)) \in Nat
        /\ SeriesAreSound(s)
    BY MiddlewareNumbers DEF Inv
  <2>2. CASE s >= 500
    BY <2>1, <2>2 DEF SeriesAreSound
  <2>3. CASE ~(s >= 500)
    BY <2>1, <2>3 DEF SeriesAreSound
  <2> QED
    BY <2>2, <2>3
<1> QED
  BY <1>1, InvHolds, PTL

================================================================================
