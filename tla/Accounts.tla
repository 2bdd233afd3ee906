------------------------------- MODULE Accounts -------------------------------
(* POST /register, POST /login and what a token is good for afterwards: the     *)
(* routes of internal/router/router.go with the handlers of AuthHandler, one    *)
(* database call per step, inside the Middleware.  An address is compared by    *)
(* MySQL under the collation of the users table, by which spellings in another  *)
(* case are one address.                                                        *)
EXTENDS Middleware, FiniteSets, Sequences

CONSTANTS
    Emails,         \* spellings of addresses
    Fold,           \* Fold[e]: what e is compared as
    Passwords,      \* passwords of 8 to 72 bytes
    Short,          \* a password that is shorter
    Junk,           \* in a field: the body is malformed, oversized, or not valid there
    Jobs,           \* Jobs[r]: what request r may ask for
    NoJob,          \* what a request that has not arrived asks for
    NoToken,
    TicksPerSecond, \* how finely time.Now is told
    TTL,            \* jwtTTL, in ticks
    LastTick        \* bound: the clock stops there

AllJobs == [op : {"register", "login"}, email : Emails \union {Junk},
            secret : Passwords \union {Short, Junk}]
    \union [op : {"use"}, token : Requests \union {Junk}]
    \union [op : {"unmatched"}]

ASSUME FoldIsIdempotent == Fold \in [Emails -> Emails] /\ \A e \in Emails : Fold[Fold[e]] = Fold[e]
ASSUME JunkIsNoInput == Junk \notin Emails \union Passwords \union Requests /\ Short \notin Passwords
ASSUME JobsAreJobs == Jobs \in [Requests -> SUBSET AllJobs] /\ NoJob \notin AllJobs
ASSUME ClockIsNatural == TicksPerSecond \in Nat \ {0} /\ TTL \in Nat \ {0} /\ LastTick \in Nat

VARIABLES
    users,  \* the rows of the users table in the order of their ids
    clock,
    job,    \* job[r]: what request r asks for
    token,  \* token[r]: what login r was answered
    actor,  \* actor[r]: the user id Auth found in the token of r, 0 for none
    (* History variables; no step reads them. *)
    at,     \* at[r]: when r, with a token, arrived
    known   \* known[r]: how many users there were when login r arrived

accounts == <<users, token>>
vars == <<middleware, accounts, clock, job, actor, at, known>>

User == [email : Emails, secret : Passwords, by : Requests]

(* uid and exp are claims of the token, expires_at is told beside it.          *)
Token == [uid : Nat \ {0}, exp : Nat, expires_at : Nat]

HandlerPcs == {"insert", "reread", "lookup", "handle"}

TypeOK ==
    /\ MiddlewareTypeOK(HandlerPcs)
    /\ users \in Seq(User)
    /\ clock \in 0 .. LastTick
    /\ job \in [Requests -> AllJobs \union {NoJob}]
    /\ token \in [Requests -> Token \union {NoToken}]
    /\ actor \in [Requests -> 0 .. Len(users)]
    /\ at \in [Requests -> 0 .. LastTick]
    /\ known \in [Requests -> 0 .. Len(users)]
    /\ \A r \in Requests :
          /\ pc[r] = "idle" <=> job[r] = NoJob
          /\ token[r] # NoToken => token[r].uid <= Len(users)

Init ==
    /\ MiddlewareInit
    /\ users = << >>
    /\ clock = 0
    /\ job = [r \in Requests |-> NoJob]
    /\ token = [r \in Requests |-> NoToken]
    /\ actor = [r \in Requests |-> 0]
    /\ at = [r \in Requests |-> 0]
    /\ known = [r \in Requests |-> 0]

-------------------------------------------------------------------------------

(* The row a statement with this address finds, 0 for none.                    *)
RowsOf(email) == {id \in DOMAIN users : Fold[users[id].email] = Fold[email]}

(* INSERT fails with 1062, which is the service's Conflict.                    *)
DuplicateKeyLoose(email) == email \in {users[id].email : id \in DOMAIN users}

DuplicateKey(email) == RowsOf(email) # {}

(* bcrypt.CompareHashAndPassword *)
PasswordMatchesLoose(id, secret) == users[id].secret \in Passwords

PasswordMatches(id, secret) == users[id].secret = secret

(* Validate, which DecodeJSON under LimitBody precedes.                        *)
Valid(j) ==
    CASE j.op = "register" -> j.email \in Emails /\ j.secret \in Passwords
      [] j.op = "login"    -> j.email \in Emails /\ j.secret # Junk
      [] OTHER             -> TRUE

(* Issue.  jwt.NumericDate keeps whole seconds, and the answer all of it.      *)
NumericDate(t) == t - (t % TicksPerSecond)

IssueLoose(uid) == [uid |-> uid, exp |-> NumericDate(clock), expires_at |-> clock + TTL]

Issue(uid) == [uid |-> uid, exp |-> NumericDate(clock + TTL), expires_at |-> clock + TTL]

(* Parse: a token this service signed, and not expired.                        *)
ParseLoose(t) == t # Junk /\ token[t] # NoToken

Parse(t) == t # Junk /\ token[t] # NoToken /\ clock < token[t].exp

-------------------------------------------------------------------------------

(* The public routes pass RateLimitByIP; the others Auth, then RateLimit.  The *)
(* limiter lets a request through or answers 429; see module RateLimit.        *)
Route(r, j) ==
    \/ /\ j.op = "unmatched"
       /\ Respond(r, 404)
       /\ UNCHANGED actor
    \/ /\ j.op \in {"register", "login"}
       /\ \/ Respond(r, 429)
          \/ ~Valid(j) /\ Respond(r, 400)
          \/ /\ Valid(j)
             /\ Goto(r, IF j.op = "register" THEN "insert" ELSE "lookup")
             /\ UNCHANGED <<sent, recorded, requestsTotal, errorsTotal, accessLog, late>>
       /\ UNCHANGED actor
    \/ /\ j.op = "use"
       /\ ~Parse(j.token)
       /\ Respond(r, 401)
       /\ UNCHANGED actor
    \/ /\ j.op = "use"
       /\ Parse(j.token)
       /\ actor' = [actor EXCEPT ![r] = token[j.token].uid]
       /\ \/ Respond(r, 429)
          \/ /\ Goto(r, "handle")
             /\ UNCHANGED <<sent, recorded, requestsTotal, errorsTotal, accessLog, late>>

(* A token is on the wire before its holder can send it.                       *)
Arrive(r, j) ==
    /\ pc[r] = "idle"
    /\ j.op = "use" /\ j.token # Junk => token[j.token] # NoToken
    /\ job' = [job EXCEPT ![r] = j]
    /\ at' = [at EXCEPT ![r] = IF j.op = "use" THEN clock ELSE 0]
    /\ known' = [known EXCEPT ![r] = IF j.op = "login" THEN Len(users) ELSE 0]
    /\ Route(r, j)
    /\ UNCHANGED <<accounts, clock>>

(* The INSERT of Create: committed, refused, or committed and not confirmed.   *)
AddUserLoose(r) ==
    users' = Append(users, [email |-> job[r].email, secret |-> job[r].email, by |-> r])

AddUser(r) ==
    users' = Append(users, [email |-> job[r].email, secret |-> job[r].secret, by |-> r])

InsertUser(r) ==
    /\ pc[r] = "insert"
    /\ \/ /\ DuplicateKey(job[r].email)
          /\ Respond(r, 409)
          /\ UNCHANGED users
       \/ /\ ~DuplicateKey(job[r].email)
          /\ AddUser(r)
          /\ Goto(r, "reread")
          /\ UNCHANGED <<sent, recorded, requestsTotal, errorsTotal, accessLog, late>>
    /\ UNCHANGED <<clock, job, token, actor, at, known>>

InsertUnconfirmed(r) ==
    /\ pc[r] = "insert"
    /\ ~DuplicateKey(job[r].email)
    /\ AddUser(r)
    /\ Respond(r, 500)
    /\ UNCHANGED <<clock, job, token, actor, at, known>>

(* GetByID of the id just inserted; no statement deletes users.                *)
Reread(r) ==
    /\ pc[r] = "reread"
    /\ Respond(r, 201)
    /\ UNCHANGED <<accounts, clock, job, actor, at, known>>

(* Login: GetByEmail, the comparison, Issue.                                   *)
Login(r) ==
    /\ pc[r] = "lookup"
    /\ \/ /\ \E id \in RowsOf(job[r].email) :
                /\ PasswordMatches(id, job[r].secret)
                /\ token' = [token EXCEPT ![r] = Issue(id)]
          /\ Respond(r, 200)
       \/ /\ \A id \in RowsOf(job[r].email) : ~PasswordMatches(id, job[r].secret)
          /\ Respond(r, 401)
          /\ UNCHANGED token
    /\ UNCHANGED <<users, clock, job, actor, at, known>>

(* A handler behind Auth; TeamService and TaskService say what it does.        *)
Handle(r) ==
    /\ pc[r] = "handle"
    /\ Respond(r, 200)
    /\ UNCHANGED <<accounts, clock, job, actor, at, known>>

(* A call fails and the handler answers 500.                                   *)
Fail(r) ==
    /\ pc[r] \in HandlerPcs
    /\ Respond(r, 500)
    /\ UNCHANGED <<accounts, clock, job, actor, at, known>>

Tick ==
    /\ clock < LastTick
    /\ clock' = clock + 1
    /\ UNCHANGED <<middleware, accounts, job, actor, at, known>>

Serve(r) ==
    \/ InsertUser(r) \/ InsertUnconfirmed(r) \/ Reread(r) \/ Login(r) \/ Handle(r) \/ Fail(r)
    \/ Return(r) /\ UNCHANGED <<accounts, clock, job, actor, at, known>>

Next ==
    \/ \E r \in Requests : \/ \E j \in Jobs[r] : Arrive(r, j)
                           \/ Serve(r)
                           \/ /\ Panic(r) \/ Drop(r)
                              /\ UNCHANGED <<accounts, clock, job, actor, at, known>>
    \/ Tick

Spec == Init /\ [][Next]_vars

-------------------------------------------------------------------------------

Asks(r, op) == job[r] # NoJob /\ job[r].op = op

(* Two registrations of one address, also in different spellings, also when    *)
(* one of them heard 500 after its INSERT: one row comes of it, 201 is for who *)
(* inserted it, and 409 is true (Register, 29-41, over Create, 25-42).         *)
RegistrationHolds ==
    /\ \A r \in Requests : Asks(r, "register") =>
          /\ sent[r] = 201 => \E id \in RowsOf(job[r].email) : users[id].by = r
          /\ sent[r] = 409 => \E id \in RowsOf(job[r].email) : users[id].by # r
    /\ \A i, k \in DOMAIN users : Fold[users[i].email] = Fold[users[k].email] => i = k

(* Whoever has an account when she asks, in whatever spelling and whatever her *)
(* registration was answered, is not refused with the right password (Login,   *)
(* 56-76); and nobody gets a token for another's account.                      *)
LoginIsExact ==
    \A r \in Requests : Asks(r, "login") =>
        /\ sent[r] = 401 => \A id \in 1 .. known[r] :
              Fold[users[id].email] = Fold[job[r].email] => users[id].secret # job[r].secret
        /\ token[r] # NoToken =>
              /\ token[r].uid \in RowsOf(job[r].email)
              /\ users[token[r].uid].secret = job[r].secret

(* What the other modules take for granted of a request past Auth: its user id *)
(* is a row of users, the one its token was issued for, and the token had not  *)
(* expired when the request came (Auth, 22-41; Parse, 46-58).                  *)
ActorsAreRegistered ==
    \A r \in Requests : actor[r] # 0 =>
        /\ actor[r] \in RowsOf(job[job[r].token].email)
        /\ at[r] < token[job[r].token].expires_at

(* The expires_at of a login answer is true to the second: no token is refused *)
(* before the second it falls in (Issue, 24-44).                               *)
ExpiryIsHonest ==
    \A r \in Requests : Asks(r, "use") /\ job[r].token # Junk /\ sent[r] = 401 =>
        at[r] > token[job[r].token].expires_at - TicksPerSecond

(* Every request that ends has an answer and a log line, also one whose handler *)
(* panicked, and the line has the status its client got, unless the panic came *)
(* after the header, for which it has 500 (logging.go, recover.go, router.go    *)
(* 44-50).                                                                     *)
LogIsTrue ==
    \A r \in Requests : pc[r] = "done" =>
        /\ sent[r] # 0
        /\ accessLog[r] = IF late[r] THEN 500 ELSE sent[r]

(* What the log shows the series show, and a server error is in both of them:  *)
(* the error series never leads the request series, so that an error rate is   *)
(* at most 1, nor lags behind the log (metrics.go, 45-61; router.go, 42-50).   *)
SeriesMatchTheLog ==
    \A s \in Statuses :
        LET logged == Cardinality({r \in Requests : accessLog[r] = s}) IN
        /\ logged <= requestsTotal[s]
        /\ errorsTotal[s] \in IF s >= 500 THEN logged .. requestsTotal[s] ELSE {0}

===============================================================================
