------------------------------- MODULE Middleware -------------------------------
(* The chain every request passes (internal/router/router.go, 40-50): RequestID *)
(* and LimitBody, then Logging around Metrics around Recoverer around the       *)
(* handler.  The handler is any code that answers through httpx.WriteJSON and   *)
(* may panic at any point; Accounts supplies handlers.  Goroutines, on any      *)
(* number of instances, interleave between any two calls.  The counters are     *)
(* summed over the instances and their restarts, as Prometheus does it.         *)
EXTENDS Integers

CONSTANT
    Requests    \* the requests of a behaviour, each handled once

VARIABLES
    pc,             \* pc[r]: what request r does next
    sent,           \* sent[r]: the status on the wire, 0 before there is one
    recorded,       \* recorded[r]: the status in both statusRecorders of r
    requestsTotal,  \* http_requests_total, by status
    errorsTotal,    \* http_request_errors_total, by status
    accessLog,      \* accessLog[r]: the status in its log line, 0 before there is one
    late            \* history variable, late[r]: the handler panicked after its header

middleware == <<pc, sent, recorded, requestsTotal, errorsTotal, accessLog, late>>

Statuses == {200, 201, 400, 401, 404, 409, 429, 500}

(* The answer is written and the handler has to return; it panicked and was    *)
(* recovered; or its error has to be counted.                                  *)
Unwinding == {"written", "recovered", "failed"}

Ended == {"done", "dropped"}

MiddlewareTypeOK(handlerPcs) ==
    /\ pc \in [Requests -> {"idle"} \union handlerPcs \union Unwinding \union Ended]
    /\ sent \in [Requests -> Statuses \union {0}]
    /\ recorded \in [Requests -> Statuses]
    /\ requestsTotal \in [Statuses -> Nat]
    /\ errorsTotal \in [Statuses -> Nat]
    /\ accessLog \in [Requests -> Statuses \union {0}]
    /\ late \in [Requests -> BOOLEAN]

MiddlewareInit ==
    /\ pc = [r \in Requests |-> "idle"]
    /\ sent = [r \in Requests |-> 0]
    /\ recorded = [r \in Requests |-> 200]
    /\ requestsTotal = [s \in Statuses |-> 0]
    /\ errorsTotal = [s \in Statuses |-> 0]
    /\ accessLog = [r \in Requests |-> 0]
    /\ late = [r \in Requests |-> FALSE]

InFlight(r) == pc[r] \notin {"idle"} \union Ended

Goto(r, where) == pc' = [pc EXCEPT ![r] = where]

-------------------------------------------------------------------------------

(* WriteJSON through both recorders: each keeps the last status it is given,   *)
(* while net/http ignores every WriteHeader but the first.                     *)
WriteJSON(r, s) ==
    /\ sent' = [sent EXCEPT ![r] = IF @ = 0 THEN s ELSE @]
    /\ recorded' = [recorded EXCEPT ![r] = s]

(* The handler writes its answer; it has still to return.                      *)
Respond(r, s) ==
    /\ WriteJSON(r, s)
    /\ Goto(r, "written")
    /\ UNCHANGED <<requestsTotal, errorsTotal, accessLog, late>>

(* A panic and Recoverer's answer to it.  Loose: with Recoverer outside Logging *)
(* and Metrics, the panic unwinds past what they do after next.ServeHTTP.      *)
PanicLoose(r) ==
    /\ InFlight(r)
    /\ pc[r] \notin Unwinding \ {"written"}
    /\ late' = [late EXCEPT ![r] = sent[r] # 0]
    /\ WriteJSON(r, 500)
    /\ Goto(r, "done")
    /\ UNCHANGED <<requestsTotal, errorsTotal, accessLog>>

Panic(r) ==
    /\ InFlight(r)
    /\ pc[r] \notin Unwinding \ {"written"}
    /\ late' = [late EXCEPT ![r] = sent[r] # 0]
    /\ WriteJSON(r, 500)
    /\ Goto(r, "recovered")
    /\ UNCHANGED <<requestsTotal, errorsTotal, accessLog>>

(* `rec.status >= http.StatusInternalServerError` *)
IsErrorLoose(s) == s > 500

IsError(s) == s >= 500

(* Logging, around Metrics, writes its line when the series are up to date.    *)
LogRequest(r) ==
    /\ accessLog' = [accessLog EXCEPT ![r] = recorded[r]]
    /\ Goto(r, "done")

CountRequest(r) ==
    /\ pc[r] \in {"written", "recovered"}
    /\ requestsTotal' = [requestsTotal EXCEPT ![recorded[r]] = @ + 1]
    /\ IF IsError(recorded[r])
          THEN Goto(r, "failed") /\ UNCHANGED accessLog
          ELSE LogRequest(r)
    /\ UNCHANGED <<sent, recorded, errorsTotal, late>>

CountError(r) ==
    /\ pc[r] = "failed"
    /\ errorsTotal' = [errorsTotal EXCEPT ![recorded[r]] = @ + 1]
    /\ LogRequest(r)
    /\ UNCHANGED <<sent, recorded, requestsTotal, late>>

Return(r) == CountRequest(r) \/ CountError(r)

(* The process that handles r dies. *)
Drop(r) ==
    /\ InFlight(r)
    /\ Goto(r, "dropped")
    /\ UNCHANGED <<sent, recorded, requestsTotal, errorsTotal, accessLog, late>>

===============================================================================
