----------------------------- MODULE InviteBreaker -----------------------------
(* The circuit breaker between TeamService.Invite and the mail service         *)
(* (internal/platform/breaker/notifier.go), with as much of sony/gobreaker as  *)
(* it relies on: a call takes the breaker's mutex before it goes out and again *)
(* to report its result, and the result of a call that began in an earlier     *)
(* generation, that is before the last change of state, is ignored.  The       *)
(* breaker is in memory: each process has its own.                             *)
EXTENDS Naturals, FiniteSets, Sequences

CONSTANT
    Calls       \* the calls of SendInvite in a behaviour, each made once

VARIABLES
    state,      \* closed, open or half-open
    generation, \* how often the state has changed
    requests,   \* counts.Requests: calls let out in this generation
    failures,   \* counts.ConsecutiveFailures
    elapsed,    \* open, and Timeout has passed
    pc,         \* pc[c]: idle, out (with the mail service), done
    begun,      \* begun[c]: the generation in which c was let out
    result,     \* result[c]: what SendInvite returned
    (* History variables; no step reads them. *)
    trial,      \* trial[c]: c was let out by a breaker that was not closed
    log         \* the results in the order they were reported

breaker == <<state, generation, requests, failures, elapsed>>
vars == <<state, generation, requests, failures, elapsed, pc, begun, result, trial, log>>

TypeOK ==
    /\ state \in {"closed", "open", "half_open"}
    /\ generation \in Nat
    /\ requests \in Nat
    /\ failures \in Nat
    /\ elapsed \in BOOLEAN
    /\ pc \in [Calls -> {"idle", "out", "done"}]
    /\ begun \in [Calls -> Nat]
    /\ result \in [Calls -> {"none", "sent", "failed", "refused", "lost"}]
    /\ trial \in [Calls -> BOOLEAN]
    /\ log \in Seq([gen : Nat, ok : BOOLEAN])
    /\ elapsed => state = "open"
    /\ state # "closed" => failures = 0
    /\ state = "open" => requests = 0
    /\ state = "half_open" => requests <= 1
    /\ \A c \in Calls : pc[c] = "out" => begun[c] <= generation

Fresh ==
    /\ state = "closed" /\ generation = 0 /\ requests = 0 /\ failures = 0 /\ elapsed = FALSE

Init ==
    /\ Fresh
    /\ pc = [c \in Calls |-> "idle"]
    /\ begun = [c \in Calls |-> 0]
    /\ result = [c \in Calls |-> "none"]
    /\ trial = [c \in Calls |-> FALSE]
    /\ log = <<>>

-------------------------------------------------------------------------------
(* NotifierSettings *)

MaxRequestsLoose == 2

MaxRequests == 1

ReadyToTripLoose(n) == n > 3

ReadyToTrip(n) == n >= 3

(* gobreaker's currentState: an open breaker whose Timeout has passed counts   *)
(* as half-open from the first look at it, in a generation of its own.         *)
Now == IF elapsed THEN "half_open" ELSE state

NowGeneration == IF elapsed THEN generation + 1 ELSE generation

Enter(s, g, n, f) ==
    /\ state' = s
    /\ generation' = g
    /\ requests' = n
    /\ failures' = f
    /\ elapsed' = FALSE

Finish(c, what) ==
    /\ pc' = [pc EXCEPT ![c] = "done"]
    /\ result' = [result EXCEPT ![c] = what]

-------------------------------------------------------------------------------

Sent == IF elapsed THEN 0 ELSE requests

Admits == Now = "closed" \/ (Now = "half_open" /\ Sent < MaxRequests)

(* SendInvite up to the call of next.SendInvite *)
LetOut(c) ==
    /\ pc[c] = "idle"
    /\ Admits
    /\ Enter(Now, NowGeneration, Sent + 1, failures)
    /\ pc' = [pc EXCEPT ![c] = "out"]
    /\ begun' = [begun EXCEPT ![c] = NowGeneration]
    /\ trial' = [trial EXCEPT ![c] = Now # "closed"]
    /\ UNCHANGED <<result, log>>

(* ErrOpenState or ErrTooManyRequests *)
FailFast(c) ==
    /\ pc[c] = "idle"
    /\ ~Admits
    /\ Finish(c, "refused")
    /\ UNCHANGED <<breaker, begun, trial, log>>

(* gobreaker's afterRequest *)
Report(c, ok) ==
    /\ log' = Append(log, [gen |-> begun[c], ok |-> ok])
    /\ IF begun[c] # NowGeneration THEN Enter(Now, NowGeneration, Sent, failures)
       ELSE IF Now = "half_open" THEN Enter(IF ok THEN "closed" ELSE "open", NowGeneration + 1, 0, 0)
       ELSE IF ok THEN Enter("closed", NowGeneration, Sent, 0)
       ELSE IF ReadyToTrip(failures + 1) THEN Enter("open", NowGeneration + 1, 0, 0)
       ELSE Enter("closed", NowGeneration, Sent, failures + 1)

(* next.SendInvite returns, or panics, which the breaker takes for a failure.  *)
Return(c) ==
    /\ pc[c] = "out"
    /\ \E ok \in BOOLEAN : Report(c, ok) /\ Finish(c, IF ok THEN "sent" ELSE "failed")
    /\ UNCHANGED <<begun, trial>>

(* Timeout of an open breaker *)
TimeoutPasses ==
    /\ state = "open" /\ ~elapsed
    /\ elapsed' = TRUE
    /\ UNCHANGED <<state, generation, requests, failures, pc, begun, result, trial, log>>

(* The process ends, with the calls it had out, and another one starts.        *)
Restart ==
    /\ Enter("closed", 0, 0, 0)
    /\ pc' = [c \in Calls |-> IF pc[c] = "out" THEN "done" ELSE pc[c]]
    /\ result' = [c \in Calls |-> IF pc[c] = "out" THEN "lost" ELSE result[c]]
    /\ trial' = [c \in Calls |-> FALSE]
    /\ log' = <<>>
    /\ UNCHANGED begun

Next ==
    \/ \E c \in Calls : LetOut(c) \/ FailFast(c) \/ Return(c)
    \/ TimeoutPasses
    \/ Restart

Spec == Init /\ [][Next]_vars

-------------------------------------------------------------------------------
(* Properties *)

(* With how many failures the first n results end, counting those of the calls *)
(* let out in generation g                                                     *)
FailuresInARow(g, n) ==
    Cardinality({m \in 1 .. n : \A k \in m .. n :
        k = m \/ log[k].gen = g => log[k] = [gen |-> g, ok |-> FALSE]})

ThreeInARow(g) == \E n \in 1 .. Len(log) : FailuresInARow(g, n) >= 3

TrialEnded(g, what) == \E c \in Calls : trial[c] /\ begun[c] = g /\ result[c] = what

(* The breaker opens exactly when it should: it is not closed once three in a  *)
(* row of the calls let out since it last closed have failed, and when it is   *)
(* open, then because of such a row, or of a trial, just before; whatever      *)
(* stragglers of an earlier generation report in between never counts ("trip   *)
(* after 3 consecutive failures", notifier.go:17-21).                          *)
TripsOnThreeFailures ==
    /\ state = "closed" => ~ThreeInARow(generation)
    /\ state = "open" => ThreeInARow(generation - 1) \/ TrialEnded(generation - 1, "failed")

(* However many invitations wait for it, a mail service that may be recovering *)
(* is tried with one at a time, and the breaker does not close before a trial  *)
(* has succeeded ("then allows a single trial call", notifier.go:33-38).       *)
OneTrialAtATime ==
    /\ Cardinality({c \in Calls : pc[c] = "out" /\ trial[c]}) <= 1
    /\ state = "closed" /\ generation > 0 => TrialEnded(generation - 1, "sent")

===============================================================================
